---- MODULE Spec2Model ----
(***************************************************************************)
(* Model of the finance data sidecar (apps/finance): the DataSource health *)
(* record, the DataSourceManager fallback protocol over the Tushare and    *)
(* AkShare sources, and the TushareRateLimiter sliding window.             *)
(*                                                                         *)
(* Time is counted in tenths of a second, so that the limiter's 60.0 s     *)
(* window and its 0.1 s buffer are both integers (600 and 1).              *)
(*                                                                         *)
(* The program runs on one asyncio event loop.  An action of this module   *)
(* is one run of a coroutine from a point where it was suspended (or from  *)
(* its call) to the next point where it suspends or returns: nothing else  *)
(* runs in between.  A coroutine suspends in asyncio.to_thread (the        *)
(* upstream call), in asyncio.sleep and in the acquisition of a held lock. *)
(***************************************************************************)
EXTENDS Integers, Sequences, FiniteSets, TLC

\* ---------------------------------------------------------------- bounds

\* Requests (coroutines) that may be in flight at once.
NumProcs == 2

\* Top-level operations started in one run of the model.
MaxOps == 3

\* The last instant of the model's clock, in tenths of a second.
MaxTime == 602

\* The longest list an upstream list call returns.
MaxList == 1

\* Cache operations and clock advances in one run of the cache's model.
MaxCacheSteps == 4

\* Requests and clock advances in one run of the request layer's model.
MaxRequests == 3

\* The calls of wait() made in a run of the fair limiter
MaxWaits == 3

\* ------------------------------------------------------ program constants

\* rate_limiter.py:69 and :103, 60.0 seconds
WINDOW == 600

\* rate_limiter.py:103, the extra 0.1 seconds
BUFFER == 1

\* rate_limiter.py:36, SAFETY_FACTOR = 0.8 = SAFETY_NUM / SAFETY_DEN
SAFETY_NUM == 8

SAFETY_DEN == 10

\* base.py:90, consecutive failures that mark a source unavailable
FAILURE_THRESHOLD == 3

\* rate_limiter.py:60, the limit used when the mapping has no "default"
FALLBACK_LIMIT == 100

\* tushare_source.py:24 and akshare_source.py:24
TUSHARE_PRIORITY == 1

AKSHARE_PRIORITY == 2

\* "No value": None for a result or an error, and for a timestamp.
None == "None"

\* A timestamp that was never set (last_success, last_failure = None).
NoTime == -1

Procs == 1..NumProcs

\* The request of the sequential specification.
Caller == CHOOSE p \in Procs : \A q \in Procs : p <= q

Vendors == {"Tushare", "AkShare"}

\* rate_limiter.py:20-33
TUSHARE_RATE_LIMITS ==
    [daily |-> 200, adj_factor |-> 200, daily_basic |-> 200, fund_nav |-> 200,
     fund_basic |-> 200, stock_basic |-> 200, trade_cal |-> 500, default |-> 100]

\* The API names the model calls wait() with: the four the Tushare source
\* uses, and one that no mapping lists.
ApiNames == {"daily", "fund_nav", "stock_basic", "fund_basic", "unlisted"}

\* Clock advances of the limiter's specification: half a window, and a tenth
\* of a second more, so that ages of exactly 60.0 s and of 60.1 s both occur.
TickSteps == {300, 301}

\* Custom rate_limits mappings handed to TushareRateLimiter(rate_limits=...).
LimitConfigs == { [daily |-> 3, default |-> 2], [daily |-> 1, default |-> 3] }

VARIABLES
    now,            \* the wall clock (time.time(), datetime.now())
    limits,         \* TushareRateLimiter._limits
    request_times,  \* TushareRateLimiter._request_times: api -> timestamps
    locked,         \* TushareRateLimiter._lock: the holder, 0 when free
    waiters,        \* the lock's FIFO of suspended acquirers
    admissions,     \* history: the timestamps wait() recorded, per api, that
                    \* lie in the trailing window [now - 60 s, now]
    pro,            \* vendor -> whether it has an upstream client (_pro)
    health,         \* vendor -> DataSourceHealth
    proc,           \* request -> its coroutine's frame
    ops,            \* history: operations started so far
    memory_cache,   \* MultiLayerCache._memory_cache: key -> (value, expire_at)
    written,        \* history: key -> the last set_memory of the key since
                    \* the last clear_memory
    cache_ret,      \* the last cache operation and what it returned
    cache_lock      \* MultiLayerCache._lock: the holder, 0 when free

vars == <<now, limits, request_times, locked, waiters, admissions, pro, health,
          proc, ops, memory_cache, written, cache_ret, cache_lock>>

cache_vars == <<memory_cache, written, cache_ret, cache_lock>>

\* ------------------------------------------------------------- sequences

Range(s) == { s[k] : k \in 1..Len(s) }

\* A purge that also drops a request exactly one window old
RECURSIVE DropWhileOld_inclusive(_, _, _)
DropWhileOld_inclusive(queue, t, window_seconds) ==
    IF queue # <<>> /\ (t - Head(queue)) >= window_seconds
    THEN DropWhileOld_inclusive(Tail(queue), t, window_seconds)
    ELSE queue

\* A purge that pops at most one old request
DropWhileOld_once(queue, t, window_seconds) ==
    IF queue # <<>> /\ (t - Head(queue)) > window_seconds
    THEN Tail(queue)
    ELSE queue

RECURSIVE DropWhileOld(_, _, _)
\* _clean_old_requests: pop from the left while the head is older than the window
DropWhileOld(queue, t, window_seconds) ==
    IF queue # <<>> /\ (t - Head(queue)) > window_seconds
    THEN DropWhileOld(Tail(queue), t, window_seconds)
    ELSE queue

\* The timestamps of s that lie in the closed trailing window [t - WINDOW, t].
InWindow(s, t) == SelectSeq(s, LAMBDA x : t - WINDOW <= x /\ x <= t)

\* ---------------------------------------------------------- DataSource

Priority(v) == IF v = "Tushare" THEN TUSHARE_PRIORITY ELSE AKSHARE_PRIORITY

\* An insertion that sorts by descending priority number
InsertByPriority_descending(x, s) ==
    IF s = <<>> THEN <<x>>
    ELSE IF Priority(x) > Priority(Head(s)) THEN <<x>> \o s
    ELSE <<Head(s)>> \o <<x>> \o Tail(s)

\* list.sort(key=priority): a stable insertion of x into a sorted list
RECURSIVE InsertByPriority(_, _)
InsertByPriority(x, s) ==
    IF s = <<>> THEN <<x>>
    ELSE IF Priority(x) < Priority(Head(s)) THEN <<x>> \o s
    ELSE <<Head(s)>> \o InsertByPriority(x, Tail(s))

RECURSIVE SortByPriority(_)
SortByPriority(s) ==
    IF s = <<>> THEN <<>>
    ELSE InsertByPriority(s[Len(s)], SortByPriority(SubSeq(s, 1, Len(s) - 1)))

\* DataSourceManager._initialize_sources: the sources as they are listed
Registered == <<"Tushare", "AkShare">>

\* DataSourceManager._initialize_sources: self.sources after the sort
Sources == SortByPriority(Registered)

\* DataSourceHealth(available=...) as the constructors leave it
InitialHealth(has_client) ==
    [available |-> has_client, last_success |-> NoTime, last_failure |-> NoTime,
     consecutive_failures |-> 0, last_error |-> None]

\* record_success that forgets to clear the failure counter
record_success_keeps_count(h, t) ==
    [h EXCEPT !.available = TRUE, !.last_success = t, !.last_error = None]

\* record_failure that does not count the failure
record_failure_uncounted(h, t, error) ==
    [h EXCEPT !.last_failure = t, !.last_error = error,
              !.available = IF h.consecutive_failures >= FAILURE_THRESHOLD
                            THEN FALSE ELSE @]

\* record_failure that trips only after the threshold is exceeded
record_failure_late(h, t, error) ==
    LET n == h.consecutive_failures + 1 IN
    [h EXCEPT !.last_failure = t, !.consecutive_failures = n,
              !.last_error = error,
              !.available = IF n > FAILURE_THRESHOLD THEN FALSE ELSE @]

\* record_failure that trips one failure before the threshold
record_failure_early(h, t, error) ==
    LET n == h.consecutive_failures + 1 IN
    [h EXCEPT !.last_failure = t, !.consecutive_failures = n,
              !.last_error = error,
              !.available = IF n + 1 >= FAILURE_THRESHOLD THEN FALSE ELSE @]

\* DataSource.record_success
record_success(h, t) ==
    [h EXCEPT !.available = TRUE, !.last_success = t,
              !.consecutive_failures = 0, !.last_error = None]

\* DataSource.record_failure
record_failure(h, t, error) ==
    LET n == h.consecutive_failures + 1 IN
    [h EXCEPT !.last_failure = t, !.consecutive_failures = n,
              !.last_error = error,
              !.available = IF n >= FAILURE_THRESHOLD THEN FALSE ELSE @]

\* --------------------------------------------------- TushareRateLimiter

\* A limit rounded to the nearest integer instead of truncated
_get_limit_rounded(api_name) ==
    LET base_limit ==
            IF api_name \in DOMAIN limits THEN limits[api_name]
            ELSE IF "default" \in DOMAIN limits THEN limits["default"]
            ELSE FALLBACK_LIMIT
    IN (base_limit * SAFETY_NUM + SAFETY_DEN \div 2) \div SAFETY_DEN

\* TushareRateLimiter._get_limit
_get_limit(api_name) ==
    LET base_limit ==
            IF api_name \in DOMAIN limits THEN limits[api_name]
            ELSE IF "default" \in DOMAIN limits THEN limits["default"]
            ELSE FALLBACK_LIMIT
    IN (base_limit * SAFETY_NUM) \div SAFETY_DEN

\* TushareRateLimiter._get_queue: the deque of the api, created on first use
_get_queue(rt, api_name) ==
    IF api_name \in DOMAIN rt THEN rt ELSE rt @@ (api_name :> <<>>)

\* ---------------------------------------------------------------- values

\* What an operation returns: None, one StockData / FundData, a list of
\* DimensionData, or a health check's boolean.
NoneVal == [kind |-> "None", items |-> <<>>]

DataVal(x) == [kind |-> "data", items |-> <<x>>]

ListVal(s) == [kind |-> "list", items |-> s]

BoolVal(b) == [kind |-> IF b THEN "True" ELSE "False", items |-> <<>>]

\* What upstream call `call` of vendor v yields: every item carries the vendor
\* it came from.
Item(v, call, k) == [src |-> v, of |-> call, idx |-> k]

ItemList(v, call, n) == [k \in 1..n |-> Item(v, call, k)]

\* Exceptions.  NoError is "no exception" (last_error = None).
NoError == [exc |-> None, src |-> None]

Exc(name, v) == [exc |-> name, src |-> v]

NoRet == [kind |-> None, value |-> NoneVal, name |-> None, error |-> NoError]

Return(val, name) == [kind |-> "return", value |-> val, name |-> name, error |-> NoError]

Raise(e) == [kind |-> "raise", value |-> NoneVal, name |-> None, error |-> e]

PriceOps == {"fetch_stock_data", "fetch_fund_data"}

ManagerOps == PriceOps \cup {"fetch_dimensions", "health_check_all"}

Outcomes == {"data", "empty", "error", "raise"}

\* The frame of a request that runs nothing.
IdleFrame ==
    [pc |-> "idle", op |-> None, ws |-> <<>>, i |-> 0, part |-> None,
     stocks |-> <<>>, last_error |-> NoError, api |-> None, wake |-> 0,
     results |-> <<>>, ret |-> NoRet,
     \* history, read by no operation:
     trace |-> <<>>, all_down |-> FALSE, did_reset |-> FALSE,
     cf0 |-> [v \in Vendors |-> 0],
     \* history: the rank, by arrival at wait(), among the calls of wait()
     \* in progress; 0 outside wait()
     arr |-> 0,
     \* the symbol of the request handler the frame belongs to, if any
     req |-> None,
     \* the local variables of a cache method a thread is inside, if any
     local |-> None]

\* The source operation the manager is calling.
CurrentCall(r) ==
    CASE r.op \in PriceOps -> r.op
      [] r.op = "fetch_dimensions" ->
            IF r.part = "stock" THEN "fetch_stock_list" ELSE "fetch_fund_list"
      [] OTHER -> "health_check"

\* The api name each Tushare operation passes to tushare_limiter.wait
ApiOf(call) ==
    CASE call = "fetch_stock_data" -> "daily"
      [] call = "fetch_fund_data" -> "fund_nav"
      [] call = "fetch_stock_list" -> "stock_basic"
      [] OTHER -> "fund_basic"

\* What a source operation returns when it has nothing.
EmptyOf(call) ==
    CASE call \in PriceOps -> NoneVal
      [] call = "health_check" -> BoolVal(FALSE)
      [] OTHER -> ListVal(<<>>)

\* The mutable state the operations below transform.
State ==
    [h |-> health, rt |-> request_times, lk |-> locked, wq |-> waiters,
     adm |-> admissions, pr |-> proc]

Assign(S) ==
    /\ health' = S.h
    /\ request_times' = S.rt
    /\ locked' = S.lk
    /\ waiters' = S.wq
    /\ admissions' = S.adm
    /\ proc' = S.pr

Commit(S) == Assign(S) /\ UNCHANGED cache_vars

\* A selection that takes every source, available or not
_get_available_sources_all(h) == Sources

\* DataSourceManager._get_available_sources
_get_available_sources(h) == SelectSeq(Sources, LAMBDA v : h[v].available)

\* A reset that makes the sources available and keeps their failure counts
ResetAll_keeps_count(h) ==
    [v \in Vendors |-> [h[v] EXCEPT !.available = TRUE]]

\* A reset that also forgets the sources' last errors
ResetAll_clears_error(h) ==
    [v \in Vendors |-> [h[v] EXCEPT !.available = TRUE, !.consecutive_failures = 0,
                                    !.last_error = None]]

\* _fetch_with_fallback, lines 64-67: the reset of every source
ResetAll(h) ==
    [v \in Vendors |-> [h[v] EXCEPT !.available = TRUE, !.consecutive_failures = 0]]

\* A release that wakes the first waiter and leaves the lock free for
\* whoever asks first
Release_unfair(S) ==
    IF S.wq = <<>> THEN [S EXCEPT !.lk = 0]
    ELSE [S EXCEPT !.lk = 0, !.wq = Tail(S.wq), !.pr[Head(S.wq)].pc = "rl_run"]

\* A release that frees the lock and wakes nobody
Release_lost_wakeup(S) == [S EXCEPT !.lk = 0]

\* asyncio.Lock.release: the lock passes to the first waiter, which resumes later
Release(S) ==
    IF S.wq = <<>> THEN [S EXCEPT !.lk = 0]
    ELSE [S EXCEPT !.lk = Head(S.wq), !.wq = Tail(S.wq),
                   !.pr[Head(S.wq)].pc = "rl_run"]

Done(S, p, ret) == [S EXCEPT !.pr[p].pc = "done", !.pr[p].ret = ret]

\* An end of the loop that raises when no source had data
Finish_raises_when_empty(S, p) ==
    LET r == S.pr[p] IN
    CASE r.op \in PriceOps ->
            IF r.last_error # NoError THEN Done(S, p, Raise(r.last_error))
            ELSE Done(S, p, Raise(Exc("AllSourcesFailed", None)))
      [] r.op = "fetch_dimensions" -> Done(S, p, Return(ListVal(<<>>), "Unknown"))
      [] OTHER -> Done(S, p, Return(NoneVal, None))

\* An end of the loop that drops the captured error
Finish_never_raises(S, p) ==
    LET r == S.pr[p] IN
    CASE r.op \in PriceOps -> Done(S, p, Return(NoneVal, "Unknown"))
      [] r.op = "fetch_dimensions" -> Done(S, p, Return(ListVal(<<>>), "Unknown"))
      [] OTHER -> Done(S, p, Return(NoneVal, None))

\* The end of the manager's loop over the sources.
Finish(S, p) ==
    LET r == S.pr[p] IN
    CASE r.op \in PriceOps ->
            IF r.last_error # NoError THEN Done(S, p, Raise(r.last_error))
            ELSE Done(S, p, Return(NoneVal, "Unknown"))
      [] r.op = "fetch_dimensions" -> Done(S, p, Return(ListVal(<<>>), "Unknown"))
      [] OTHER -> Done(S, p, Return(NoneVal, None))

\* A capture that keeps the first error
Capture_first(last_error, e) == IF last_error = NoError THEN e ELSE last_error

\* _fetch_with_fallback, line 87: last_error = e
Capture(last_error, e) == e

\* A combination that puts the funds first
Combine_funds_first(stocks, funds) == funds \o stocks

\* fetch_dimensions, line 149: all_dimensions = stocks + funds
Combine(stocks, funds) == stocks \o funds

RECURSIVE Invoke(_, _), Returned(_, _, _, _, _, _), NextSource(_, _), AfterWait(_, _, _)

\* The body of wait()'s `while True`, run by the holder of the lock.
\* History: the arrival rank of a call that enters wait() now.
Arrive(pr) == 1 + Cardinality({ q \in Procs : pr[q].arr > 0 })

\* History: the call of p has left wait(); the calls behind it move up.
Depart(pr, p) ==
    [q \in Procs |->
        IF q = p THEN [pr[q] EXCEPT !.arr = 0]
        ELSE IF pr[q].arr > pr[p].arr THEN [pr[q] EXCEPT !.arr = @ - 1]
        ELSE pr[q]]

\* A loop whose sleep is 0.1 s short of the window instead of 0.1 s over it
WaitLoop_short_sleep(S, p) ==
    LET api == S.pr[p].api
        limit == _get_limit(api)
        rt0 == _get_queue(S.rt, api)
        queue == DropWhileOld(rt0[api], now, WINDOW)
        S1 == [S EXCEPT !.rt = [rt0 EXCEPT ![api] = queue]]
    IN  IF Len(queue) < limit
        THEN AfterWait(Release([S1 EXCEPT !.rt[api] = Append(queue, now),
                                          !.adm[api] = Append(@, now)]), p, "ok")
        ELSE IF queue = <<>>
        THEN AfterWait(Release(S1), p, "IndexError")
        ELSE LET wait_time == WINDOW - (now - queue[1]) - BUFFER IN
             [S1 EXCEPT !.pr[p].pc = "rl_sleep",
                        !.pr[p].wake = now + (IF wait_time > 0 THEN wait_time ELSE 0)]

\* A loop that admits a call when the window is already at capacity
WaitLoop_admits_at_capacity(S, p) ==
    LET api == S.pr[p].api
        limit == _get_limit(api)
        rt0 == _get_queue(S.rt, api)
        queue == DropWhileOld(rt0[api], now, WINDOW)
        S1 == [S EXCEPT !.rt = [rt0 EXCEPT ![api] = queue]]
    IN  IF Len(queue) <= limit
        THEN AfterWait(Release([S1 EXCEPT !.rt[api] = Append(queue, now),
                                          !.adm[api] = Append(@, now)]), p, "ok")
        ELSE IF queue = <<>>
        THEN AfterWait(Release(S1), p, "IndexError")
        ELSE LET wait_time == WINDOW - (now - queue[1]) + BUFFER IN
             [S1 EXCEPT !.pr[p].pc = "rl_sleep",
                        !.pr[p].wake = now + (IF wait_time > 0 THEN wait_time ELSE 0)]

WaitLoop(S, p) ==
    LET api == S.pr[p].api
        limit == _get_limit(api)
        rt0 == _get_queue(S.rt, api)
        queue == DropWhileOld(rt0[api], now, WINDOW)
        S1 == [S EXCEPT !.rt = [rt0 EXCEPT ![api] = queue]]
    IN  IF Len(queue) < limit
        THEN AfterWait(Release([S1 EXCEPT !.rt[api] = Append(queue, now),
                                          !.adm[api] = Append(@, now)]), p, "ok")
        ELSE IF queue = <<>>
        THEN \* queue[0] of an empty deque
             AfterWait(Release(S1), p, "IndexError")
        ELSE LET wait_time == WINDOW - (now - queue[1]) + BUFFER IN
             [S1 EXCEPT !.pr[p].pc = "rl_sleep",
                        !.pr[p].wake = now + (IF wait_time > 0 THEN wait_time ELSE 0)]

\* TushareRateLimiter.wait, from its call to its first suspension
Wait(S, p, api) ==
    LET S0 == [S EXCEPT !.pr[p].api = api, !.pr[p].arr = Arrive(S.pr)] IN
    IF S.lk = 0 /\ S.wq = <<>> THEN WaitLoop([S0 EXCEPT !.lk = p], p)
    ELSE [S0 EXCEPT !.wq = Append(@, p), !.pr[p].pc = "rl_lock"]

\* wait() has returned ("ok") or raised to its caller: a bare wait() call ends;
\* a Tushare operation goes on to asyncio.to_thread, or to its except clause.
AfterWait(S0, p, how) ==
    LET S == [S0 EXCEPT !.pr = Depart(S0.pr, p)]
        r == S.pr[p]
    IN
    IF r.op = "wait"
    THEN Done(S, p, IF how = "ok" THEN Return(NoneVal, None)
                    ELSE Raise(Exc(how, None)))
    ELSE IF how = "ok" THEN [S EXCEPT !.pr[p].pc = "upstream"]
    ELSE LET v == r.ws[r.i] IN
         Returned([S EXCEPT !.h[v] = record_failure(@, now, how)], p, "error",
                  EmptyOf(CurrentCall(r)), "record_failure", S.h[v])

\* Sources none of which asks the limiter before its upstream call
Invoke_unthrottled(S, p) ==
    LET r == S.pr[p]
        v == r.ws[r.i]
        call == CurrentCall(r)
    IN  IF call = "health_check"
        THEN IF v = "Tushare" /\ ~pro[v]
             THEN Returned(S, p, "empty", BoolVal(FALSE), None, S.h[v])
             ELSE [S EXCEPT !.pr[p].pc = "upstream"]
        ELSE [S EXCEPT !.pr[p].pc = "upstream"]

\* The manager calls the current operation of source ws[i].
Invoke(S, p) ==
    LET r == S.pr[p]
        v == r.ws[r.i]
        call == CurrentCall(r)
    IN  IF call = "health_check"
        THEN IF v = "Tushare" /\ ~pro[v]
             THEN Returned(S, p, "empty", BoolVal(FALSE), None, S.h[v])
             ELSE [S EXCEPT !.pr[p].pc = "upstream"]
        ELSE IF v = "Tushare" THEN Wait(S, p, ApiOf(call))
        ELSE [S EXCEPT !.pr[p].pc = "upstream"]

\* A loop that calls the first source of the working set a second time before
\* it moves on
NextSource_retry(S, p) ==
    LET r == S.pr[p]
        S1 == [S EXCEPT !.pr[p].i = r.i + 1,
                        !.pr[p].part = IF r.op = "fetch_dimensions" THEN "stock" ELSE @]
    IN  IF Len(r.trace) = 1 THEN Invoke(S, p)
        ELSE IF r.i + 1 > Len(r.ws) THEN Finish(S1, p) ELSE Invoke(S1, p)

\* The manager's loop moves to the next source, or ends.
NextSource(S, p) ==
    LET r == S.pr[p]
        S1 == [S EXCEPT !.pr[p].i = r.i + 1,
                        !.pr[p].part = IF r.op = "fetch_dimensions" THEN "stock" ELSE @]
    IN  IF r.i + 1 > Len(r.ws) THEN Finish(S1, p) ELSE Invoke(S1, p)

\* The operation of source ws[i] has returned val to the manager, or
\* (out = "raise") raised.  For the history: rec is the health method the
\* operation called (None when it called neither), before is the source's
\* health record as the operation found it, and S.h[v] is the record it left.
Returned(S, p, out, val, rec, before) ==
    LET r == S.pr[p]
        v == r.ws[r.i]
        call == CurrentCall(r)
        S1 == [S EXCEPT !.pr[p].trace =
                  Append(@, [v |-> v, call |-> call, out |-> out, value |-> val,
                             rec |-> rec, before |-> before, after |-> S.h[v]])]
    IN  CASE r.op \in PriceOps ->
                IF out = "raise"
                THEN NextSource([S1 EXCEPT !.pr[p].last_error =
                                    Capture(@, Exc("VendorError", v))], p)
                ELSE IF val.kind # "None" THEN Done(S1, p, Return(val, v))
                ELSE NextSource(S1, p)
          [] r.op = "fetch_dimensions" ->
                IF out = "raise" THEN NextSource(S1, p)
                ELSE IF r.part = "stock"
                THEN Invoke([S1 EXCEPT !.pr[p].stocks = val.items,
                                       !.pr[p].part = "fund"], p)
                ELSE LET all_dimensions == Combine(r.stocks, val.items) IN
                     IF all_dimensions # <<>>
                     THEN Done(S1, p, Return(ListVal(all_dimensions), v))
                     ELSE NextSource(S1, p)
          [] OTHER ->
                LET entry ==
                        IF out = "raise"
                        THEN [name |-> v, healthy |-> FALSE, has_error |-> TRUE,
                              available |-> FALSE, consecutive_failures |-> 0]
                        ELSE [name |-> v, healthy |-> (val.kind = "True"),
                              has_error |-> FALSE,
                              available |-> S.h[v].available,
                              consecutive_failures |-> S.h[v].consecutive_failures]
                IN  NextSource([S1 EXCEPT !.pr[p].results = Append(@, entry)], p)

\* ---------------------------------------------------------------- actions

Free(p) == proc[p].pc \in {"idle", "done"}

\* The frame of a manager operation that starts with working set ws.
StartFrame(op, ws, h, reset) ==
    [IdleFrame EXCEPT !.pc = "run", !.op = op, !.ws = ws, !.i = 1,
                      !.part = IF op = "fetch_dimensions" THEN "stock" ELSE None,
                      !.all_down = (\A v \in Vendors : ~h[v].available),
                      !.did_reset = reset,
                      !.cf0 = [v \in Vendors |-> h[v].consecutive_failures]]

\* DataSourceManager.fetch_stock_data / fetch_fund_data: _fetch_with_fallback
\* from its call to the first suspension.
FetchWithFallback(p, fetch_func_name) ==
    /\ Free(p)
    /\ ops < MaxOps
    /\ ops' = ops + 1
    /\ LET available_sources == _get_available_sources(health)
           none == (available_sources = <<>>)
           h1 == IF none THEN ResetAll(health) ELSE health
           ws == IF none THEN Sources ELSE available_sources
           S == [State EXCEPT !.h = h1,
                              !.pr[p] = StartFrame(fetch_func_name, ws, health, none)]
       IN  Commit(Invoke(S, p))
    /\ UNCHANGED <<now, limits, pro>>

\* A fetch_dimensions that resets the sources when none is available, as the
\* price fetch does
FetchDimensions_resets(p) ==
    /\ Free(p)
    /\ ops < MaxOps
    /\ ops' = ops + 1
    /\ LET available_sources == _get_available_sources(health)
           none == (available_sources = <<>>)
           h1 == IF none THEN ResetAll(health) ELSE health
           ws == IF none THEN Sources ELSE available_sources
           S == [State EXCEPT !.h = h1,
                              !.pr[p] = StartFrame("fetch_dimensions", ws, health, FALSE)]
       IN  Commit(Invoke(S, p))
    /\ UNCHANGED <<now, limits, pro>>

\* DataSourceManager.fetch_dimensions, from its call to the first suspension
FetchDimensions(p) ==
    /\ Free(p)
    /\ ops < MaxOps
    /\ ops' = ops + 1
    /\ LET available_sources == _get_available_sources(health)
           ws == IF available_sources = <<>> THEN Sources ELSE available_sources
           S == [State EXCEPT !.pr[p] = StartFrame("fetch_dimensions", ws, health, FALSE)]
       IN  Commit(Invoke(S, p))
    /\ UNCHANGED <<now, limits, pro>>

\* A health_check_all that checks the available sources only
HealthCheckAll_available_only(p) ==
    /\ Free(p)
    /\ ops < MaxOps
    /\ ops' = ops + 1
    /\ LET ws == _get_available_sources(health)
           S == [State EXCEPT !.pr[p] = StartFrame("health_check_all", ws, health, FALSE)]
       IN  Commit(IF ws = <<>> THEN Finish(S, p) ELSE Invoke(S, p))
    /\ UNCHANGED <<now, limits, pro>>

\* DataSourceManager.health_check_all, from its call to the first suspension
HealthCheckAll(p) ==
    /\ Free(p)
    /\ ops < MaxOps
    /\ ops' = ops + 1
    /\ LET S == [State EXCEPT !.pr[p] = StartFrame("health_check_all", Sources, health, FALSE)]
       IN  Commit(Invoke(S, p))
    /\ UNCHANGED <<now, limits, pro>>

\* A source whose operations return the empty result on an upstream failure
\* and record nothing
SourceOutcome_failure_unrecorded(h, v, call, out, n) ==
    LET success == [h |-> record_success(h, now), rec |-> "record_success"]
        neither == [h |-> h, rec |-> None]
    IN  CASE out = "raise" -> neither @@ [val |-> NoneVal]
          [] out = "error" -> neither @@ [val |-> EmptyOf(call)]
          [] out = "data" /\ call \in PriceOps ->
                success @@ [val |-> DataVal(Item(v, call, 1))]
          [] out = "data" /\ call = "health_check" ->
                success @@ [val |-> BoolVal(TRUE)]
          [] out = "data" ->
                success @@ [val |-> ListVal(ItemList(v, call, n))]
          [] out = "empty" /\ call \in {"fetch_stock_list", "fetch_fund_list"} ->
                success @@ [val |-> ListVal(<<>>)]
          [] OTHER -> neither @@ [val |-> EmptyOf(call)]

\* What the source operation `call` of vendor v does with the outcome of its
\* upstream call (asyncio.to_thread(self._sync_...)): the health record after
\* it, and the value it returns.  out = "raise" is an exception that leaves
\* the operation, as the DataSource interface allows and the manager's
\* `except Exception` expects; a source that raises has recorded nothing.
SourceOutcome(h, v, call, out, n) ==
    LET success == [h |-> record_success(h, now), rec |-> "record_success"]
        failure == [h |-> record_failure(h, now, "error"), rec |-> "record_failure"]
        neither == [h |-> h, rec |-> None]
    IN  CASE out = "raise" -> neither @@ [val |-> NoneVal]
          [] out = "error" -> failure @@ [val |-> EmptyOf(call)]
          [] out = "data" /\ call \in PriceOps ->
                success @@ [val |-> DataVal(Item(v, call, 1))]
          [] out = "data" /\ call = "health_check" ->
                success @@ [val |-> BoolVal(TRUE)]
          [] out = "data" ->
                success @@ [val |-> ListVal(ItemList(v, call, n))]
          [] out = "empty" /\ call \in {"fetch_stock_list", "fetch_fund_list"} ->
                success @@ [val |-> ListVal(<<>>)]
          [] OTHER -> neither @@ [val |-> EmptyOf(call)]

\* The outcomes the upstream call of vendor v can have.  A Tushare source
\* without a client (_pro is None) returns None or [] from its _sync_ method;
\* Tushare's _sync_health_check returns True or raises.
Possible(v, call, out) ==
    /\ (v = "Tushare" /\ ~pro[v]) => out = "empty"
    /\ (v = "Tushare" /\ call = "health_check") => out # "empty"

\* asyncio.to_thread completes: the source operation resumes, returns to the
\* manager, and the manager runs to its next suspension.
UpstreamReturn(p, out, n) ==
    /\ proc[p].pc = "upstream"
    /\ LET r == proc[p]
           v == r.ws[r.i]
           call == CurrentCall(r)
           o == SourceOutcome(health[v], v, call, out, n)
       IN  /\ Possible(v, call, out)
           /\ (n # 1) => (out = "data" /\ call \in {"fetch_stock_list", "fetch_fund_list"})
           /\ Commit(Returned([State EXCEPT !.h[v] = o.h], p, out, o.val, o.rec,
                               health[v]))
    /\ UNCHANGED <<now, limits, pro, ops>>

\* A bare call of TushareRateLimiter.wait(api_name)
CallWait(p, api_name) ==
    /\ Free(p)
    /\ LET S == [State EXCEPT !.pr[p] = [IdleFrame EXCEPT !.pc = "run", !.op = "wait"]]
       IN  Commit(Wait(S, p, api_name))
    /\ UNCHANGED <<now, limits, pro, ops>>

\* A waiter that was handed the lock resumes in wait().
LockAcquired(p) ==
    /\ proc[p].pc = "rl_run"
    /\ locked = p
    /\ Commit(WaitLoop(State, p))
    /\ UNCHANGED <<now, limits, pro, ops>>

\* asyncio.sleep(wait_time) is over: wait() evaluates its loop again.
WakeUp(p) ==
    /\ proc[p].pc = "rl_sleep"
    /\ now >= proc[p].wake
    /\ Commit(WaitLoop(State, p))
    /\ UNCHANGED <<now, limits, pro, ops>>

\* A cancellation that leaves the lock with the cancelled call
Cancelled_keeps_lock(S, p) ==
    Done([S EXCEPT !.pr = Depart(S.pr, p),
                   !.wq = SelectSeq(S.wq, LAMBDA q : q # p)],
         p, Raise(Exc("CancelledError", None)))

\* CancelledError is raised in wait() where it is suspended: in the lock's
\* acquire, which takes the caller out of the lock's queue and, if the lock
\* had just been passed to it, passes it on; or in asyncio.sleep, from where
\* it leaves `async with self._lock`, which releases the lock.  No statement
\* of wait() catches it, and none after the suspension point runs.
Cancelled(S, p) ==
    LET S1 == [S EXCEPT !.pr = Depart(S.pr, p)] IN
    Done(IF S1.lk = p THEN Release(S1)
         ELSE [S1 EXCEPT !.wq = SelectSeq(S1.wq, LAMBDA q : q # p)],
         p, Raise(Exc("CancelledError", None)))

\* The task awaiting wait() is cancelled while wait() is suspended.
Cancel(p) ==
    /\ proc[p].op = "wait"
    /\ proc[p].pc \in {"rl_lock", "rl_run", "rl_sleep"}
    /\ Commit(Cancelled(State, p))
    /\ UNCHANGED <<now, limits, pro, ops>>

\* Time passes.
Tick(d) ==
    /\ now + d <= MaxTime
    /\ now' = now + d
    /\ admissions' = [a \in ApiNames |-> InWindow(admissions[a], now + d)]
    /\ UNCHANGED <<limits, request_times, locked, waiters, pro, health, proc, ops>>
    /\ UNCHANGED cache_vars

\* ------------------------------------------------------------- the cache

\* The clock of the cache is the same wall clock, read as datetime.now():
\* tenths of a second since a Monday 00:00:00.
SECOND == 10

MINUTE == 60 * SECOND

HOUR == 60 * MINUTE

DAY == 24 * HOUR

\* datetime.weekday(): 0 is Monday, 6 is Sunday
Weekday(t) == (t \div DAY) % 7

\* datetime.time(): the time of day
TimeOfDay(t) == t % DAY

\* datetime.time(h, m)
dt_time(h, m) == h * HOUR + m * MINUTE

\* A trading-hours test whose sessions exclude their end points
_is_trading_hours_open(t) ==
    IF Weekday(t) >= 5 THEN FALSE
    ELSE LET current_time == TimeOfDay(t) IN
         \/ dt_time(9, 30) < current_time /\ current_time < dt_time(11, 30)
         \/ dt_time(13, 0) < current_time /\ current_time < dt_time(15, 0)

\* MultiLayerCache._is_trading_hours at the instant t
_is_trading_hours(t) ==
    IF Weekday(t) >= 5 THEN FALSE
    ELSE LET current_time == TimeOfDay(t)
             morning_start == dt_time(9, 30)
             morning_end == dt_time(11, 30)
             afternoon_start == dt_time(13, 0)
             afternoon_end == dt_time(15, 0)
         IN  \/ morning_start <= current_time /\ current_time <= morning_end
             \/ afternoon_start <= current_time /\ current_time <= afternoon_end

\* A policy that gives stock entries the off-hours TTL at all times
_get_ttl_stock_always_long(cache_type, t) ==
    LET is_trading == _is_trading_hours(t) IN
    CASE cache_type = "stock" -> 30 * MINUTE
      [] cache_type = "fund" -> IF is_trading THEN 30 * MINUTE ELSE 6 * HOUR
      [] cache_type = "dim" -> 6 * HOUR
      [] OTHER -> 5 * MINUTE

\* A policy whose in-session stock TTL is two tenths of a second too long
_get_ttl_stock_slack(cache_type, t) ==
    LET is_trading == _is_trading_hours(t) IN
    CASE cache_type = "stock" -> IF is_trading THEN 2 * MINUTE + 2 ELSE 30 * MINUTE
      [] cache_type = "fund" -> IF is_trading THEN 30 * MINUTE ELSE 6 * HOUR
      [] cache_type = "dim" -> 6 * HOUR
      [] OTHER -> 5 * MINUTE

\* MultiLayerCache._get_ttl at the instant t
_get_ttl(cache_type, t) ==
    LET is_trading == _is_trading_hours(t) IN
    CASE cache_type = "stock" -> IF is_trading THEN 2 * MINUTE ELSE 30 * MINUTE
      [] cache_type = "fund" -> IF is_trading THEN 30 * MINUTE ELSE 6 * HOUR
      [] cache_type = "dim" -> 6 * HOUR
      [] OTHER -> 5 * MINUTE

\* The keys, values and cache types the model calls the cache with.
Keys == {"k1", "k2"}

Values == {"v1", "v2"}

CacheTypes == {"stock", "fund", "dim", "other"}

\* Instants the cache's clock starts at: a tenth of a second before each
\* end of a session on a Friday, and before 10:00 on the Saturday after.
CacheStarts ==
    { 4 * DAY + dt_time(9, 30) - 1, 4 * DAY + dt_time(11, 30) - 1,
      4 * DAY + dt_time(13, 0) - 1, 4 * DAY + dt_time(15, 0) - 1,
      5 * DAY + dt_time(10, 0) - 1 }

\* Clock advances of the cache's specification: a tenth of a second, and the
\* in-session stock TTL less, exactly, and plus a tenth of a second.
CacheSteps == { 1, 2 * MINUTE - 1, 2 * MINUTE, 2 * MINUTE + 1 }

\* dict: d[key] = x
Put(d, key, x) == [k \in DOMAIN d \cup {key} |-> IF k = key THEN x ELSE d[k]]

\* dict: del d[key]
Del(d, key) == [k \in DOMAIN d \ {key} |-> d[k]]

NoCall == [op |-> "none", key |-> None, value |-> None, size |-> 0]

CacheRet(op, key, value, size) ==
    [op |-> op, key |-> key, value |-> value, size |-> size]

\* A get that returns an entry up to and including its expiry instant
get_memory_late(m, key, t) ==
    IF key \in DOMAIN m
    THEN IF t <= m[key].expire_at THEN [m |-> m, value |-> m[key].value, hit |-> TRUE]
         ELSE [m |-> Del(m, key), value |-> None, hit |-> FALSE]
    ELSE [m |-> m, value |-> None, hit |-> FALSE]

\* A get whose comparison with the expiry is the wrong way round
get_memory_inverted(m, key, t) ==
    IF key \in DOMAIN m
    THEN IF t > m[key].expire_at THEN [m |-> m, value |-> m[key].value, hit |-> TRUE]
         ELSE [m |-> Del(m, key), value |-> None, hit |-> FALSE]
    ELSE [m |-> m, value |-> None, hit |-> FALSE]

\* MultiLayerCache.get_memory on the dict m at the instant t: the dict after
\* the call, the value returned, and whether that value is an entry's (hit)
\* or the None of a miss
get_memory(m, key, t) ==
    IF key \in DOMAIN m
    THEN IF t < m[key].expire_at THEN [m |-> m, value |-> m[key].value, hit |-> TRUE]
         ELSE [m |-> Del(m, key), value |-> None, hit |-> FALSE]
    ELSE [m |-> m, value |-> None, hit |-> FALSE]

\* MultiLayerCache.set_memory on the dict m at the instant t
set_memory(m, key, value, cache_type, t) ==
    LET ttl == _get_ttl(cache_type, t)
        expire_at == t + ttl
    IN  Put(m, key, [value |-> value, expire_at |-> expire_at])

\* A clear that removes only the entries that have expired
clear_memory_expired_only(m, t) ==
    [k \in { k \in DOMAIN m : t < m[k].expire_at } |-> m[k]]

\* MultiLayerCache.clear_memory
clear_memory(m, t) == << >>

\* MultiLayerCache.get_stats: memory_cache_size
get_stats(m) == Cardinality(DOMAIN m)

limiter_vars == <<limits, request_times, locked, waiters, admissions, pro,
                  health, proc>>

SetMemory(key, value, cache_type) ==
    /\ ops < MaxCacheSteps
    /\ ops' = ops + 1
    /\ memory_cache' = set_memory(memory_cache, key, value, cache_type, now)
    /\ written' = Put(written, key,
                      [value |-> value, at |-> now, cache_type |-> cache_type,
                       trading |-> _is_trading_hours(now),
                       expire_at |-> memory_cache'[key].expire_at])
    /\ cache_ret' = CacheRet("set_memory", key, None, 0)
    /\ UNCHANGED <<now, cache_lock, limiter_vars>>

GetMemory(key) ==
    /\ ops < MaxCacheSteps
    /\ ops' = ops + 1
    /\ LET g == get_memory(memory_cache, key, now) IN
        /\ memory_cache' = g.m
        /\ cache_ret' = CacheRet("get_memory", key, g.value, 0)
    /\ UNCHANGED <<now, written, cache_lock, limiter_vars>>

ClearMemory ==
    /\ ops < MaxCacheSteps
    /\ ops' = ops + 1
    /\ memory_cache' = clear_memory(memory_cache, now)
    /\ written' = << >>
    \* history in size: the entries the call found
    /\ cache_ret' = CacheRet("clear_memory", None, None, get_stats(memory_cache))
    /\ UNCHANGED <<now, cache_lock, limiter_vars>>

GetStats ==
    /\ ops < MaxCacheSteps
    /\ ops' = ops + 1
    /\ cache_ret' = CacheRet("get_stats", None, None, get_stats(memory_cache))
    /\ UNCHANGED <<now, memory_cache, written, cache_lock, limiter_vars>>

\* Time passes for the cache.
CacheTick(d) ==
    /\ ops < MaxCacheSteps
    /\ ops' = ops + 1
    /\ now' = now + d
    /\ cache_ret' = NoCall
    /\ UNCHANGED <<memory_cache, written, cache_lock, limiter_vars>>

\* ------------------------------------------------------ the request layer

\* The symbols the model asks get_stock_eod for: one code, bare and with its
\* market prefix.  A symbol is held as its two parts; its text is SymbolStr.
Symbols == { [prefix |-> x, code |-> "000001"] : x \in {"", "sz"} }

SymbolStr(symbol) == symbol.prefix \o symbol.code

\* symbol.startswith(("sh", "sz", "bj"))
HasMarketPrefix(symbol) == symbol.prefix \in {"sh", "sz", "bj"}

\* main.get_stock_prefix_from_symbol
get_stock_prefix_from_symbol(symbol) ==
    IF HasMarketPrefix(symbol) THEN symbol.prefix ELSE "sz"

\* get_stock_eod: code = symbol[2:] if symbol.startswith(...) else symbol
CodeOf(symbol) == IF HasMarketPrefix(symbol) THEN symbol.code ELSE SymbolStr(symbol)

\* StockData.symbol as both sources build it: f"{prefix}{code}"
StockSymbol(code, prefix) == prefix \o code

\* Instant the request layer's clock starts at: a Monday, 10:00.
RequestStart == dt_time(10, 0)

\* Clock advance of the request layer's specification: the in-session stock TTL.
RequestSteps == { 2 * MINUTE }

\* A result that names the first registered source, whoever had the data
Result_primary_source(symbol, stock_data, source_name) ==
    [symbol |-> symbol, data |-> stock_data, source |-> Sources[1]]

\* get_stock_eod: the result dict built from the manager's (stock_data,
\* source_name).  data stands for price, date and currency, and carries, for
\* the history, the source whose upstream call produced it.
Result(symbol, stock_data, source_name) ==
    [symbol |-> symbol, data |-> stock_data, source |-> source_name]

\* {**result, "cached": cached, "cache_level": cache_level}
Respond(result, cached, cache_level) ==
    [status |-> 200, symbol |-> result.symbol, data |-> result.data,
     source |-> result.source, cached |-> cached, cache_level |-> cache_level]

HTTPException(status_code) == [status |-> status_code]

\* MultiLayerCache.get_price_persistent
get_price_persistent(m, symbol, t) == get_memory(m, "price:" \o symbol, t)

\* MultiLayerCache.set_price_persistent
set_price_persistent(m, data, t) ==
    set_memory(m, "price:" \o data.symbol, data, "stock", t)

\* History: what the last set of `key` wrote, as SetMemory keeps it.
Written(w, m, key, value, cache_type) ==
    Put(w, key, [value |-> value, at |-> now, cache_type |-> cache_type,
                 trading |-> _is_trading_hours(now),
                 expire_at |-> m[key].expire_at])

RequestFrame(pc, symbol) ==
    [IdleFrame EXCEPT !.pc = pc, !.op = "get_stock_eod", !.req = symbol]

\* get_stock_eod from its call to its return from a cache, or to its
\* suspension in rate_limiter.wait()
GetStockEod(p, symbol) ==
    /\ Free(p)
    /\ ops < MaxRequests
    /\ ops' = ops + 1
    /\ LET cache_key == "stock:" \o SymbolStr(symbol)
           l1 == get_memory(memory_cache, cache_key, now)
           l2 == get_price_persistent(l1.m, SymbolStr(symbol), now)
           backfilled == set_memory(l2.m, cache_key, l2.value, "stock", now)
       IN  IF l1.hit
           THEN /\ memory_cache' = l1.m
                /\ written' = written
                /\ cache_ret' = CacheRet("get_stock_eod", SymbolStr(symbol),
                                         Respond(l1.value, TRUE, "L1"), 0)
                /\ proc' = [proc EXCEPT ![p] = RequestFrame("done", symbol)]
           ELSE IF l2.hit
           THEN /\ memory_cache' = backfilled
                /\ written' = Written(written, backfilled, cache_key, l2.value, "stock")
                /\ cache_ret' = CacheRet("get_stock_eod", SymbolStr(symbol),
                                         Respond(l2.value, TRUE, "L2"), 0)
                /\ proc' = [proc EXCEPT ![p] = RequestFrame("done", symbol)]
           ELSE /\ memory_cache' = l2.m
                /\ written' = written
                /\ cache_ret' = NoCall
                /\ proc' = [proc EXCEPT ![p] = RequestFrame("throttle", symbol)]
    /\ UNCHANGED <<now, limits, request_times, locked, waiters, admissions,
                   pro, health, cache_lock>>

\* get_stock_eod after `await data_source_manager.fetch_stock_data(...)`, in
\* the step in which the manager's call ends: the 404, the 500, or the two
\* cache writes and the L3 response.  Nothing of it runs while the manager's
\* call is suspended.
AfterFetch(S, p) ==
    LET r == S.pr[p]
        symbol == r.req
        cache_key == "stock:" \o SymbolStr(symbol)
        answer(x) == cache_ret' = CacheRet("get_stock_eod", SymbolStr(symbol), x, 0)
    IN  IF r.pc # "done" THEN UNCHANGED cache_vars
        ELSE IF r.ret.kind = "raise"
        THEN answer(HTTPException(500)) /\ UNCHANGED <<memory_cache, written, cache_lock>>
        ELSE IF r.ret.value = NoneVal
        THEN answer(HTTPException(404)) /\ UNCHANGED <<memory_cache, written, cache_lock>>
        ELSE LET stock_data == r.ret.value.items[1]
                 result == Result(StockSymbol(CodeOf(symbol),
                                              get_stock_prefix_from_symbol(symbol)),
                                  stock_data, r.ret.name)
                 m1 == set_memory(memory_cache, cache_key, result, "stock", now)
                 m2 == set_price_persistent(m1, result, now)
             IN  /\ memory_cache' = m2
                 /\ written' = Written(Written(written, m1, cache_key, result, "stock"),
                                       m2, "price:" \o result.symbol, result, "stock")
                 /\ answer(Respond(result, FALSE, "L3"))
                 /\ UNCHANGED cache_lock

\* rate_limiter.wait() has returned to get_stock_eod, which calls
\* data_source_manager.fetch_stock_data(code, prefix) and runs to the next
\* suspension.  The request limiter of main.py (one lock, a sleep of at most
\* min_interval) is not modelled further than this: its wait() returns at
\* some later step, in any order among the requests suspended in it, and
\* never raises.
RequestFetch(p) ==
    /\ proc[p].pc = "throttle"
    /\ LET available_sources == _get_available_sources(health)
           none == (available_sources = <<>>)
           h1 == IF none THEN ResetAll(health) ELSE health
           ws == IF none THEN Sources ELSE available_sources
           frame == [StartFrame("fetch_stock_data", ws, health, none)
                        EXCEPT !.req = proc[p].req]
           S == Invoke([State EXCEPT !.h = h1, !.pr[p] = frame], p)
       IN  Assign(S) /\ AfterFetch(S, p)
    /\ UNCHANGED <<now, limits, pro, ops>>

\* asyncio.to_thread completes in a request's fetch: the source operation
\* resumes, the manager runs to its next suspension or to its end, and at its
\* end get_stock_eod runs to its return.
RequestReturn(p, out) ==
    /\ proc[p].pc = "upstream"
    /\ LET r == proc[p]
           v == r.ws[r.i]
           call == CurrentCall(r)
           o == SourceOutcome(health[v], v, call, out, 1)
           S == Returned([State EXCEPT !.h[v] = o.h], p, out, o.val, o.rec,
                         health[v])
       IN  /\ Possible(v, call, out)
           /\ Assign(S)
           /\ AfterFetch(S, p)
    /\ UNCHANGED <<now, limits, pro, ops>>

\* Time passes for the request layer.
RequestTick(d) ==
    /\ ops < MaxRequests
    /\ ops' = ops + 1
    /\ now' = now + d
    /\ admissions' = [a \in ApiNames |-> InWindow(admissions[a], now + d)]
    /\ UNCHANGED <<limits, request_times, locked, waiters, pro, health, proc>>
    /\ UNCHANGED cache_vars

\* ------------------------------------------- the cache called by threads

\* The cache types the threads write with: one that expires after
\* RequestSteps, one that does not.
ThreadCacheTypes == {"stock", "dim"}

ThreadFrame(op, pc, local) ==
    [IdleFrame EXCEPT !.pc = pc, !.op = op, !.local = local]

\* get_memory called by thread p, which enters `with self._lock` when the lock
\* is free, looks the key up and compares the expiry: it returns the value,
\* or None for a key not there, and leaves the lock; or it stands, with the
\* lock, before `del self._memory_cache[key]`.
GetMemoryEnter(p, key) ==
    /\ Free(p)
    /\ ops < MaxCacheSteps
    /\ ops' = ops + 1
    /\ cache_lock = 0
    /\ LET g == get_memory(memory_cache, key, now) IN
        IF key \in DOMAIN memory_cache /\ ~g.hit
        THEN /\ cache_lock' = p
             /\ proc' = [proc EXCEPT ![p] =
                           ThreadFrame("get_memory", "get_del",
                                       [key |-> key, found |-> memory_cache[key]])]
             /\ cache_ret' = NoCall
        ELSE /\ cache_lock' = 0
             /\ proc' = [proc EXCEPT ![p] =
                           ThreadFrame("get_memory", "done", [key |-> key])]
             /\ cache_ret' = CacheRet("get_memory", key, g.value, 0)
    /\ UNCHANGED <<now, memory_cache, written, limits, request_times, locked,
                   waiters, admissions, pro, health>>

\* get_memory: del self._memory_cache[key], the lock left, None returned
GetMemoryEvict(p) ==
    /\ proc[p].pc = "get_del"
    /\ memory_cache' = Del(memory_cache, proc[p].local.key)
    /\ cache_lock' = 0
    /\ proc' = [proc EXCEPT ![p].pc = "done"]
    /\ cache_ret' = CacheRet("get_memory", proc[p].local.key, None, 0)
    /\ UNCHANGED <<now, written, ops, limits, request_times, locked, waiters,
                   admissions, pro, health>>

\* set_memory called by thread p: ttl = self._get_ttl(cache_type), computed
\* before the lock is asked for
SetMemoryEnter(p, key, value, cache_type) ==
    /\ Free(p)
    /\ ops < MaxCacheSteps
    /\ ops' = ops + 1
    /\ proc' = [proc EXCEPT ![p] =
                  ThreadFrame("set_memory", "set_lock",
                              [key |-> key, value |-> value,
                               cache_type |-> cache_type,
                               ttl |-> _get_ttl(cache_type, now)])]
    /\ UNCHANGED <<now, limits, request_times, locked, waiters, admissions,
                   pro, health>>
    /\ UNCHANGED cache_vars

\* A set_memory that writes without the lock
SetMemoryWrite_unlocked(p) ==
    /\ proc[p].pc = "set_lock"
    /\ LET l == proc[p].local
           expire_at == now + l.ttl
       IN  /\ memory_cache' = Put(memory_cache, l.key,
                                  [value |-> l.value, expire_at |-> expire_at])
           /\ written' = Written(written, memory_cache', l.key, l.value, l.cache_type)
           /\ cache_ret' = CacheRet("set_memory", l.key, None, 0)
    /\ proc' = [proc EXCEPT ![p].pc = "done"]
    /\ UNCHANGED <<now, cache_lock, ops, limits, request_times, locked, waiters,
                   admissions, pro, health>>

\* set_memory inside `with self._lock`, entered when the lock is free:
\* expire_at = datetime.now() + timedelta(seconds=ttl), the (value, expire_at)
\* pair stored, the lock left
SetMemoryWrite(p) ==
    /\ proc[p].pc = "set_lock"
    /\ cache_lock = 0
    /\ LET l == proc[p].local
           expire_at == now + l.ttl
       IN  /\ memory_cache' = Put(memory_cache, l.key,
                                  [value |-> l.value, expire_at |-> expire_at])
           /\ written' = Written(written, memory_cache', l.key, l.value, l.cache_type)
           /\ cache_ret' = CacheRet("set_memory", l.key, None, 0)
    /\ proc' = [proc EXCEPT ![p].pc = "done"]
    /\ UNCHANGED <<now, cache_lock, ops, limits, request_times, locked, waiters,
                   admissions, pro, health>>

\* clear_memory called by a thread: `with self._lock`, entered when it is free
ClearMemoryThread ==
    /\ cache_lock = 0
    /\ ClearMemory

\* get_stats called by a thread: `with self._lock`, entered when it is free
GetStatsThread ==
    /\ cache_lock = 0
    /\ GetStats

\* --------------------------------------------------------- specifications

IdleProcs == [p \in Procs |-> IdleFrame]

\* The process after start-up: DataSourceManager() has built and sorted the
\* sources, Tushare with or without a token, and the sources share the
\* module's limiter, built with TUSHARE_RATE_LIMITS.
Init ==
    /\ now = 0
    /\ limits = TUSHARE_RATE_LIMITS
    /\ request_times = << >>
    /\ locked = 0
    /\ waiters = <<>>
    /\ admissions = [a \in ApiNames |-> <<>>]
    /\ pro \in { [v \in Vendors |-> v = "AkShare" \/ b] : b \in BOOLEAN }
    /\ health = [v \in Vendors |-> InitialHealth(pro[v])]
    /\ proc = IdleProcs
    /\ ops = 0
    /\ memory_cache = << >>
    /\ written = << >>
    /\ cache_ret = NoCall
    /\ cache_lock = 0

\* One request at a time: the operations of the manager called one after the
\* other, each by the one caller.
Next ==
    \/ \E f \in PriceOps : FetchWithFallback(Caller, f)
    \/ FetchDimensions(Caller)
    \/ HealthCheckAll(Caller)
    \/ \E out \in Outcomes, n \in 1..MaxList : UpstreamReturn(Caller, out, n)

Spec == Init /\ [][Next]_vars

\* A limiter of its own, built with a custom mapping and called directly.
InitRL ==
    /\ now = 0
    /\ limits \in LimitConfigs
    /\ request_times = << >>
    /\ locked = 0
    /\ waiters = <<>>
    /\ admissions = [a \in ApiNames |-> <<>>]
    /\ pro = [v \in Vendors |-> TRUE]
    /\ health = [v \in Vendors |-> InitialHealth(TRUE)]
    /\ proc = IdleProcs
    /\ ops = 0
    /\ memory_cache = << >>
    /\ written = << >>
    /\ cache_ret = NoCall
    /\ cache_lock = 0

NextRL ==
    \/ \E p \in Procs, a \in {"daily", "unlisted"} : CallWait(p, a)
    \/ \E p \in Procs : LockAcquired(p)
    \/ \E p \in Procs : WakeUp(p)
    \/ \E p \in Procs : Cancel(p)
    \/ \E d \in TickSteps : Tick(d)

SpecRL == InitRL /\ [][NextRL]_vars

\* The limiter under a fair scheduler.  The event loop runs every coroutine
\* that is ready and fires every timer that is due, so a waiter that was
\* handed the lock resumes, and a sleeper whose wake time has come wakes up;
\* and the clock reaches every timer.  The callers make MaxWaits calls in all.
IssueWait(p, api_name) ==
    /\ Free(p)
    /\ ops < MaxWaits
    /\ ops' = ops + 1
    /\ LET S == [State EXCEPT !.pr[p] = [IdleFrame EXCEPT !.pc = "run", !.op = "wait"]]
       IN  Commit(Wait(S, p, api_name))
    /\ UNCHANGED <<now, limits, pro>>

\* asyncio.sleep(wait_time): with nothing else to run, the event loop blocks
\* until the timer of the sleeping call of wait() is due.
SleepElapses(p) ==
    /\ proc[p].pc = "rl_sleep"
    /\ proc[p].wake > now
    /\ now' = proc[p].wake
    /\ admissions' = [a \in ApiNames |-> InWindow(admissions[a], proc[p].wake)]
    /\ UNCHANGED <<limits, request_times, locked, waiters, pro, health, proc, ops>>
    /\ UNCHANGED cache_vars

NextFair ==
    \/ \E p \in Procs, a \in {"daily", "unlisted"} : IssueWait(p, a)
    \/ \E p \in Procs : LockAcquired(p)
    \/ \E p \in Procs : WakeUp(p)
    \/ \E p \in Procs : SleepElapses(p)
    \/ \E p \in Procs : Cancel(p)
    \/ \E d \in TickSteps : Tick(d)

\* Only the call that holds the lock, or was handed it, can be ready or have
\* a timer, so at most one of these steps is enabled at a time.
Resume == \E p \in Procs : LockAcquired(p) \/ WakeUp(p) \/ SleepElapses(p)

Fairness == WF_vars(Resume)

SpecFair == InitRL /\ [][NextFair]_vars /\ Fairness

\* The cache on its own: MultiLayerCache() called by one thread of control,
\* from one of the starting instants on.
InitCache ==
    /\ now \in CacheStarts
    /\ limits = TUSHARE_RATE_LIMITS
    /\ request_times = << >>
    /\ locked = 0
    /\ waiters = <<>>
    /\ admissions = [a \in ApiNames |-> <<>>]
    /\ pro = [v \in Vendors |-> TRUE]
    /\ health = [v \in Vendors |-> InitialHealth(TRUE)]
    /\ proc = IdleProcs
    /\ ops = 0
    /\ memory_cache = << >>
    /\ written = << >>
    /\ cache_ret = NoCall
    /\ cache_lock = 0

NextCache ==
    \/ \E k \in Keys, v \in Values, c \in CacheTypes : SetMemory(k, v, c)
    \/ \E k \in Keys : GetMemory(k)
    \/ ClearMemory
    \/ GetStats
    \/ \E d \in CacheSteps : CacheTick(d)

SpecCache == InitCache /\ [][NextCache]_vars

\* The request layer: get_stock_eod called by concurrent requests over the
\* cache and the manager, from an instant within a trading session on.
InitRequest ==
    /\ now = RequestStart
    /\ limits = TUSHARE_RATE_LIMITS
    /\ request_times = << >>
    /\ locked = 0
    /\ waiters = <<>>
    /\ admissions = [a \in ApiNames |-> <<>>]
    /\ pro \in { [v \in Vendors |-> v = "AkShare" \/ b] : b \in BOOLEAN }
    /\ health = [v \in Vendors |-> InitialHealth(pro[v])]
    /\ proc = IdleProcs
    /\ ops = 0
    /\ memory_cache = << >>
    /\ written = << >>
    /\ cache_ret = NoCall
    /\ cache_lock = 0

NextRequest ==
    \/ \E p \in Procs, symbol \in Symbols : GetStockEod(p, symbol)
    \/ \E p \in Procs : RequestFetch(p)
    \/ \E p \in Procs, out \in Outcomes : RequestReturn(p, out)
    \/ \E d \in RequestSteps : RequestTick(d)

SpecRequest == InitRequest /\ [][NextRequest]_vars

\* The cache called by concurrent threads, which interleave wherever a method
\* is outside `with self._lock`, and, inside it, only with threads that do
\* not ask for the lock.
InitThreads ==
    /\ now = RequestStart
    /\ limits = TUSHARE_RATE_LIMITS
    /\ request_times = << >>
    /\ locked = 0
    /\ waiters = <<>>
    /\ admissions = [a \in ApiNames |-> <<>>]
    /\ pro = [v \in Vendors |-> TRUE]
    /\ health = [v \in Vendors |-> InitialHealth(TRUE)]
    /\ proc = IdleProcs
    /\ ops = 0
    /\ memory_cache = << >>
    /\ written = << >>
    /\ cache_ret = NoCall
    /\ cache_lock = 0

NextThreads ==
    \/ \E p \in Procs, k \in Keys : GetMemoryEnter(p, k)
    \/ \E p \in Procs : GetMemoryEvict(p)
    \/ \E p \in Procs, k \in Keys, v \in Values, c \in ThreadCacheTypes :
            SetMemoryEnter(p, k, v, c)
    \/ \E p \in Procs : SetMemoryWrite(p)
    \/ ClearMemoryThread
    \/ GetStatsThread
    \/ \E d \in RequestSteps : CacheTick(d)

SpecThreads == InitThreads /\ [][NextThreads]_vars

\* A source's health record after a fetch_dimensions in which its two list
\* operations both failed.
FailedTwice(h) == record_failure(record_failure(h, now, "error"), now, "error")

\* Concurrent requests: the process after one fetch_dimensions that has
\* returned, in which the list operations of each source it called either
\* both failed or were not reached; from there, the manager's price fetches
\* called by requests that interleave at their suspension points.
InitConcurrent ==
    /\ now = 0
    /\ limits = TUSHARE_RATE_LIMITS
    /\ request_times = << >>
    /\ locked = 0
    /\ waiters = <<>>
    /\ admissions = [a \in ApiNames |-> <<>>]
    /\ pro \in { [v \in Vendors |-> v = "AkShare" \/ b] : b \in BOOLEAN }
    /\ health \in { [v \in Vendors |-> IF v \in F THEN FailedTwice(InitialHealth(pro[v]))
                                        ELSE InitialHealth(pro[v])] :
                     F \in SUBSET { v \in Vendors : pro[v] } }
    /\ proc = IdleProcs
    /\ ops = 1
    /\ memory_cache = << >>
    /\ written = << >>
    /\ cache_ret = NoCall
    /\ cache_lock = 0

NextConcurrent ==
    \/ \E p \in Procs, f \in PriceOps : FetchWithFallback(p, f)
    \/ \E p \in Procs, out \in Outcomes : UpstreamReturn(p, out, 1)

SpecConcurrent == InitConcurrent /\ [][NextConcurrent]_vars

\* ------------------------------------------------------------------ claims

Frames == { proc[p] : p \in Procs }

\* The entries of the traces of all frames.
Entries == UNION { Range(r.trace) : r \in Frames }

\* C1: in every reachable state, every source whose consecutive_failures is
\* at least 3 is unavailable.
C1_ThresholdImpliesUnavailable ==
    \A v \in Vendors :
        health[v].consecutive_failures >= FAILURE_THRESHOLD => ~health[v].available

\* C1 witness: a source has failed more than three times in a row (it went on
\* failing, in fetch_dimensions or health_check_all, after it became unavailable).
C1_Witness ==
    \E v \in Vendors : health[v].consecutive_failures > FAILURE_THRESHOLD

\* C2: whatever the health record of a source was, the record a call of
\* record_success leaves has consecutive_failures = 0, available = TRUE and
\* last_error = None; and it is the record the source has when the operation
\* that called it was the last to complete.
C2_SuccessResets ==
    /\ \A e \in Entries :
            e.rec = "record_success" =>
                /\ e.after.consecutive_failures = 0
                /\ e.after.available
                /\ e.after.last_error = None
    /\ \A r \in Frames :
            (r.trace # <<>> /\ r.trace[Len(r.trace)].rec = "record_success") =>
                health[r.trace[Len(r.trace)].v] = r.trace[Len(r.trace)].after

\* C2 witness: record_success was called on a source that was unavailable
\* after three or more consecutive failures.
C2_Witness ==
    \E e \in Entries :
        /\ e.rec = "record_success"
        /\ e.before.consecutive_failures >= FAILURE_THRESHOLD
        /\ ~e.before.available
        /\ e.before.last_error # None

\* The frames of the price operations (fetch_stock_data, fetch_fund_data).
PriceFrames == { r \in Frames : r.op \in PriceOps }

\* Position of source v in the list the manager was given.
RegIndex(v) == CHOOSE k \in 1..Len(Registered) : Registered[k] = v

\* u comes before v: lower priority number, ties in registration order.
Before(u, v) ==
    \/ Priority(u) < Priority(v)
    \/ Priority(u) = Priority(v) /\ RegIndex(u) < RegIndex(v)

\* The entry holds a result that is not None (and is no exception).
HasData(e) == e.out # "raise" /\ e.value.kind # "None"

\* C3: a price fetch calls the sources of its working set in ascending
\* priority order (ties in registration order), one call each; the first
\* source that returns a result that is not None ends the fetch, which
\* returns that result with that source's name; no source is called after it.
C3_PriorityOrderFirstSuccess ==
    \A r \in PriceFrames :
        /\ \A j, k \in 1..Len(r.ws) : j < k => Before(r.ws[j], r.ws[k])
        /\ Len(r.trace) <= Len(r.ws)
        /\ \A k \in 1..Len(r.trace) :
            /\ r.trace[k].v = r.ws[k]
            /\ HasData(r.trace[k]) =>
                /\ k = Len(r.trace)
                /\ r.pc = "done"
                /\ r.ret = Return(r.trace[k].value, r.trace[k].v)
        /\ (r.pc = "done" /\ r.ret.kind = "return" /\ r.ret.value # NoneVal) =>
                (r.trace # <<>> /\ HasData(r.trace[Len(r.trace)]))

\* C3 witness: the first source returned None and the second one a result,
\* which the fetch returned under the second source's name.
C3_Witness ==
    \E r \in PriceFrames :
        /\ r.pc = "done"
        /\ r.ws = <<"Tushare", "AkShare">>
        /\ Len(r.trace) = 2
        /\ r.ret = Return(DataVal(Item("AkShare", r.op, 1)), "AkShare")

\* The fetch of claim C4: both sources available at the call, the first
\* one failed in the way `how`, the second one returned a result.
C4_Case(r, how) ==
    /\ r \in PriceFrames
    /\ r.pc = "done"
    /\ ~r.all_down
    /\ r.ws = <<"Tushare", "AkShare">>
    /\ Len(r.trace) = 2
    /\ r.trace[1].out \in how
    /\ r.trace[2].out = "data"

C5_AllEmptyReturnsUnknown ==
    \A r \in PriceFrames :
        (r.pc = "done" /\ \A k \in 1..Len(r.trace) : r.trace[k].out \in {"empty", "error"}) =>
            /\ Len(r.trace) = Len(r.ws)
            /\ r.ret = Return(NoneVal, "Unknown")

\* C5 witness: two sources, both returned None, none raised.
C5_Witness ==
    \E r \in PriceFrames :
        /\ r.pc = "done"
        /\ Len(r.trace) = 2
        /\ \A k \in 1..2 : r.trace[k].out = "empty"
        /\ r.ret.name = "Unknown"

\* The positions of the trace where the source raised to the manager.
Raises(r) == { k \in 1..Len(r.trace) : r.trace[k].out = "raise" }

Max(S) == CHOOSE x \in S : \A y \in S : y <= x

\* C6: when no source returned a result and at least one raised, the fetch
\* raises the exception of the last source (in priority order) that raised;
\* and a raise does not end the loop: the sources after it are called too.
C6_ReRaisesLastError ==
    \A r \in PriceFrames :
        r.pc = "done" =>
            /\ (Raises(r) # {} /\ \A k \in 1..Len(r.trace) : ~HasData(r.trace[k])) =>
                    r.ret = Raise(Exc("VendorError", r.trace[Max(Raises(r))].v))
            /\ (\A k \in 1..Len(r.trace) : ~HasData(r.trace[k])) =>
                    Len(r.trace) = Len(r.ws)

\* C6 witness: both sources raised, and the fetch raised the second one's
\* exception.
C6_Witness ==
    \E r \in PriceFrames :
        /\ r.pc = "done"
        /\ Raises(r) = {1, 2}
        /\ r.ret.kind = "raise"
        /\ r.ret.error.src = "AkShare"

C8_ResetWhenAllUnavailable ==
    [][\A p \in Procs :
        (/\ Free(p)
         /\ proc'[p].op \in PriceOps
         /\ ops' = ops + 1
         /\ \A v \in Vendors : ~health[v].available)
        => /\ \A v \in Vendors :
                health'[v].available /\ health'[v].consecutive_failures = 0
           /\ proc'[p].ws = Sources
           /\ proc'[p].i = 1
           /\ proc'[p].pc = "upstream"]_vars

\* C8 witness: a fetch that found both sources unavailable, the first of them
\* after three failures, is inside the first source's operation.
C8_Witness ==
    \E r \in PriceFrames :
        /\ r.all_down
        /\ r.cf0["Tushare"] >= FAILURE_THRESHOLD
        /\ r.pc = "upstream"
        /\ r.i = 1
        /\ r.trace = <<>>

\* C9: fetch_dimensions returns the stock list followed by the fund list of
\* one source, the first in priority order whose two lists are not both
\* empty, with that source's name; every item of the list comes from that
\* source.  It returns ([], "Unknown") when there is no such source.
C9_DimensionsFromOneSource ==
    \A r \in Frames :
        (r.op = "fetch_dimensions" /\ r.pc = "done") =>
            LET items == r.ret.value.items
                n == Len(r.trace)
            IN  /\ r.ret.kind = "return"
                /\ items = <<>> => r.ret.name = "Unknown"
                /\ items # <<>> =>
                    /\ r.ret.name \in Vendors
                    /\ \A k \in 1..Len(items) : items[k].src = r.ret.name
                    /\ n >= 2
                    /\ r.trace[n - 1].v = r.ret.name
                    /\ r.trace[n - 1].call = "fetch_stock_list"
                    /\ r.trace[n].v = r.ret.name
                    /\ r.trace[n].call = "fetch_fund_list"
                    /\ items = r.trace[n - 1].value.items \o r.trace[n].value.items
                    /\ \A k \in 1..(n - 2) :
                        /\ Before(r.trace[k].v, r.ret.name)
                        /\ (r.trace[k].call = "fetch_fund_list" /\ r.trace[k].out # "raise")
                            => (r.trace[k - 1].value.items = <<>>
                                /\ r.trace[k].value.items = <<>>)

\* C9 witness: the first source returned stocks and then raised in its fund
\* list; the call returned the second source's stocks and funds, and nothing
\* of the first source's.
C9_Witness ==
    \E r \in Frames :
        /\ r.op = "fetch_dimensions"
        /\ r.pc = "done"
        /\ r.ret.name = "AkShare"
        /\ Len(r.ret.value.items) = 2
        /\ r.trace[1].v = "Tushare"
        /\ r.trace[1].value.items # <<>>
        /\ r.trace[2].out = "raise"

Admitted(r) == r.op = "wait" /\ r.pc = "done" /\ r.ret = Return(NoneVal, None)

\* C11: with the lock free, a call of wait(api) that finds fewer than
\* capacity(api) admissions in the window returns at once and records its
\* admission, so the first capacity(api) back-to-back calls on an empty window
\* all return without suspending; a call that finds the window full
\* (capacity >= 1, so that the window has an oldest entry) suspends, records
\* nothing, and is admitted no earlier than 60 s after the oldest entry, that
\* is 60 s minus the entry's age after the call.
C11_BurstThenSuspend ==
    [][/\ \A p \in Procs, a \in ApiNames :
            (CallWait(p, a) /\ locked = 0 /\ waiters = <<>>) =>
                /\ Len(admissions[a]) < _get_limit(a) =>
                    /\ Admitted(proc'[p])
                    /\ admissions'[a] = Append(admissions[a], now)
                /\ (Len(admissions[a]) = _get_limit(a) /\ _get_limit(a) >= 1) =>
                    /\ proc'[p].pc = "rl_sleep"
                    /\ proc'[p].wake >= admissions[a][1] + WINDOW
                    /\ admissions' = admissions
                    /\ request_times'[a] = admissions[a]
       /\ \A p \in Procs :
            (proc[p].pc = "rl_sleep" /\ Admitted(proc'[p])) =>
                /\ now >= proc[p].wake
                /\ now >= request_times[proc[p].api][1] + WINDOW]_vars

\* C11 witness: capacity = 2 admissions made in one instant, a third caller
\* asleep for a slot, and exactly 60.0 s gone by: the caller still sleeps.
C11_Witness ==
    \E p \in Procs, a \in ApiNames :
        /\ _get_limit(a) = 2
        /\ Len(admissions[a]) = 2
        /\ admissions[a][1] = admissions[a][2]
        /\ proc[p].pc = "rl_sleep"
        /\ proc[p].api = a
        /\ now = admissions[a][1] + WINDOW
        /\ now < proc[p].wake

\* C12 as stated: a caller of wait(X) whose window for X has a free slot is
\* never kept waiting while another caller is suspended inside wait(Y) for a
\* saturated api Y # X.
C12_CrossApiNoContention ==
    \A p, q \in Procs :
        ~ /\ proc[p].pc = "rl_lock"
          /\ Len(admissions[proc[p].api]) < _get_limit(proc[p].api)
          /\ proc[q].pc = "rl_sleep"
          /\ now < proc[q].wake
          /\ proc[q].api # proc[p].api
          /\ Len(admissions[proc[q].api]) = _get_limit(proc[q].api)

\* The call of wait() in frame r is in progress: it waits for the lock,
\* holds it, or sleeps for a slot.
InWait(r) == r.pc \in {"rl_lock", "rl_run", "rl_sleep"}

\* The arrival rank of p's call in a step that admits it: its rank if the
\* call was in progress, the last rank if the step is the call itself.
RankOf(p) == IF InWait(proc[p]) THEN proc[p].arr ELSE Arrive(proc)

WasCancelled(r) ==
    r.op = "wait" /\ r.pc = "done" /\ r.ret = Raise(Exc("CancelledError", None))

\* C14: the cancellation of a call suspended in wait(), waiting for the lock
\* or sleeping for a slot, appends no timestamp: every window is left as it
\* was; and it leaves the lock usable: the cancelled call neither holds the
\* lock nor stands in its queue, a lock it held has passed to the first
\* waiter, and the other waiters keep their places.
C14_CancelRecordsNothing ==
    [][\A p \in Procs :
        Cancel(p) =>
            /\ request_times' = request_times
            /\ admissions' = admissions
            /\ WasCancelled(proc'[p])
            /\ locked' # p
            /\ \A k \in 1..Len(waiters') : waiters'[k] # p
            /\ locked = p =>
                /\ locked' = (IF waiters = <<>> THEN 0 ELSE Head(waiters))
                /\ waiters' = (IF waiters = <<>> THEN <<>> ELSE Tail(waiters))
            /\ locked # p =>
                /\ locked' = locked
                /\ waiters' = SelectSeq(waiters, LAMBDA q : q # p)
            /\ locked' # 0 => proc'[locked'].pc \in {"rl_run", "rl_sleep"}]_vars

\* C14 witness: a call was cancelled in its sleep before the slot it slept
\* for came free; another caller then got the lock and sleeps for that same
\* slot of the window, which is as full as it was.
C14_Witness ==
    \E p, q \in Procs :
        /\ WasCancelled(proc[p])
        /\ proc[p].wake > now
        /\ locked = q
        /\ proc[q].pc = "rl_sleep"
        /\ proc[q].api = proc[p].api
        /\ proc[q].wake = proc[p].wake
        /\ Len(request_times[proc[p].api]) = _get_limit(proc[p].api)

\* The limit configured for an api name: its own, or the default's.
ConfiguredLimit(a) == IF a \in DOMAIN limits THEN limits[a] ELSE limits["default"]

\* C15: for every api name, mapped or not, the capacity wait() enforces is
\* floor(configured limit * 0.8), the configured limit of an unmapped name
\* being the default's: the capacity c is the integer with
\* c <= limit * 8 / 10 < c + 1.
C15_CapacityIsFloorOfEightTenths ==
    \A a \in ApiNames \cup DOMAIN limits :
        LET c == _get_limit(a) IN
        /\ c \in Nat
        /\ SAFETY_DEN * c <= SAFETY_NUM * ConfiguredLimit(a)
        /\ SAFETY_NUM * ConfiguredLimit(a) < SAFETY_DEN * (c + 1)

\* C15 witness: with a default limit of 2 (2 * 0.8 = 1.6) an unmapped api
\* name has one admission in its window and a second caller sleeps.
C15_Witness ==
    /\ limits["default"] = 2
    /\ "unlisted" \notin DOMAIN limits
    /\ Len(admissions["unlisted"]) = 1
    /\ \E p \in Procs : proc[p].pc = "rl_sleep" /\ proc[p].api = "unlisted"

\* C16: a get_memory(k) made strictly before the expiry of the entry that the
\* last set_memory(k, v, type) stored, with no set_memory(k) or clear_memory
\* in between, returns v and leaves the cache as it is.
C16_GetReturnsWhatWasSet ==
    [][\A k \in Keys :
        (GetMemory(k) /\ k \in DOMAIN written /\ now < written[k].expire_at)
        => /\ cache_ret'.value = written[k].value
           /\ memory_cache' = memory_cache]_vars

\* C16 witness: a get made after the set, a tenth of a second before the
\* expiry, returned the value that was set.
C16_Witness ==
    \E k \in Keys :
        /\ cache_ret = CacheRet("get_memory", k, "v2", 0)
        /\ k \in DOMAIN written
        /\ written[k].value = "v2"
        /\ now = written[k].expire_at - 1
        /\ now > written[k].at

\* C17: a get_memory(k) made at or after the expiry of the stored entry
\* returns None and removes that entry and no other, so that the size
\* get_stats reports drops by one; nothing but a get_memory of its key (or a
\* set or a clear) touches an entry: the passing of time leaves expired
\* entries stored, and get_stats counts them.
C17_LazyExpiry ==
    [][/\ \A k \in Keys :
            (GetMemory(k) /\ k \in DOMAIN memory_cache
                          /\ now >= memory_cache[k].expire_at)
            => /\ cache_ret'.value = None
               /\ memory_cache' = Del(memory_cache, k)
               /\ get_stats(memory_cache') = get_stats(memory_cache) - 1
       /\ \A k \in Keys :
            GetMemory(k) =>
                \A j \in DOMAIN memory_cache \ {k} :
                    j \in DOMAIN memory_cache' /\ memory_cache'[j] = memory_cache[j]
       /\ (\E d \in CacheSteps : CacheTick(d)) => memory_cache' = memory_cache
       /\ GetStats =>
            /\ memory_cache' = memory_cache
            /\ cache_ret'.size = Cardinality(DOMAIN memory_cache)]_vars

\* C17 witness: a get at the very instant of the expiry returned None and
\* removed the entry, while another entry, expired too and not read, is
\* still stored.
C17_Witness ==
    \E k \in Keys, j \in Keys :
        /\ j # k
        /\ cache_ret = CacheRet("get_memory", k, None, 0)
        /\ k \in DOMAIN written
        /\ now = written[k].expire_at
        /\ k \notin DOMAIN memory_cache
        /\ j \in DOMAIN memory_cache
        /\ now >= memory_cache[j].expire_at

\* The TTL policy in seconds: in session, off hours.
PolicySeconds(cache_type, trading) ==
    CASE cache_type = "stock" -> IF trading THEN 120 ELSE 1800
      [] cache_type = "fund" -> IF trading THEN 1800 ELSE 21600
      [] cache_type = "dim" -> 21600
      [] OTHER -> 300

\* C18: every entry is stored with expire_at = the instant of its set_memory
\* + the TTL of its type: stock 120 s in session and 1800 s off hours, fund
\* 1800 / 21600, dim 21600 / 21600, any other type 300 / 300; the in-session
\* stock TTL is less than the off-hours one.
C18_ExpiryIsNowPlusPolicy ==
    /\ \A k \in DOMAIN written :
        /\ written[k].expire_at =
              written[k].at
              + PolicySeconds(written[k].cache_type, written[k].trading) * SECOND
        /\ k \in DOMAIN memory_cache =>
              memory_cache[k] = [value |-> written[k].value,
                                 expire_at |-> written[k].expire_at]
    /\ \A c \in CacheTypes :
        _get_ttl(c, now) = PolicySeconds(c, _is_trading_hours(now)) * SECOND
    /\ PolicySeconds("stock", TRUE) < PolicySeconds("stock", FALSE)

\* C18 witness: one stock entry set in session and one set off hours are
\* both stored.
C18_Witness ==
    \E k, j \in DOMAIN written \cap DOMAIN memory_cache :
        /\ written[k].cache_type = "stock"
        /\ written[k].trading
        /\ written[j].cache_type = "stock"
        /\ ~written[j].trading

\* Monday to Friday, and the time of day in [09:30, 11:30] or [13:00, 15:00],
\* in tenths of a second.
InSession(t) ==
    /\ (t \div 864000) % 7 \in 0..4
    /\ \/ 342000 <= t % 864000 /\ t % 864000 <= 414000
       \/ 468000 <= t % 864000 /\ t % 864000 <= 540000

\* C19: _is_trading_hours is true exactly on Monday to Friday with the time
\* of day in the closed interval [09:30, 11:30] or [13:00, 15:00]: at every
\* instant the clock takes, and at every instant a set_memory used it.
C19_TradingHoursClosedIntervals ==
    /\ _is_trading_hours(now) <=> InSession(now)
    /\ \A k \in DOMAIN written : written[k].trading <=> InSession(written[k].at)

\* C19 witness: a set_memory at 11:30:00.0 sharp on a Friday found the
\* session open, and the clock has since moved a tenth of a second on, out
\* of the session.
C19_Witness ==
    \E k \in DOMAIN written :
        /\ written[k].at = 4 * DAY + dt_time(11, 30)
        /\ written[k].trading
        /\ now = written[k].at + 1
        /\ ~_is_trading_hours(now)

\* C20: after clear_memory the cache holds no entry, whatever it held
\* before: get_stats would report size 0 and get_memory returns None for
\* every key.
C20_ClearLeavesNothing ==
    [][ClearMemory =>
        /\ DOMAIN memory_cache' = {}
        /\ get_stats(memory_cache') = 0
        /\ \A k \in Keys : get_memory(memory_cache', k, now).value = None]_vars

\* C20 witness: a clear_memory that found two entries has left the cache
\* empty.
C20_Witness ==
    /\ cache_ret.op = "clear_memory"
    /\ cache_ret.size = 2
    /\ DOMAIN memory_cache = {}

\* C21: when the upstream call of a source operation fails, the operation
\* calls record_failure once on its own health record (consecutive_failures
\* goes up by one, last_error is set, no other source's record changes) and
\* returns its empty result to the manager, None for a price, [] for a list,
\* False for a health check, instead of raising.
C21_OperationsAbsorbUpstreamFailure ==
    /\ \A e \in Entries :
        e.out = "error" =>
            /\ e.rec = "record_failure"
            /\ e.after.consecutive_failures = e.before.consecutive_failures + 1
            /\ e.after.last_error # None
            /\ e.after.last_success = e.before.last_success
            /\ e.value = EmptyOf(e.call)
            /\ e.value = CASE e.call \in PriceOps -> NoneVal
                           [] e.call = "health_check" -> BoolVal(FALSE)
                           [] OTHER -> ListVal(<<>>)
    /\ \A r \in Frames :
        /\ (r.op \in PriceOps /\ \A k \in 1..Len(r.trace) : r.trace[k].out = "error")
              => r.last_error = NoError
        /\ (r.op = "health_check_all" /\ r.pc = "done") =>
              \A k \in 1..Len(r.trace) :
                  r.trace[k].out = "error" =>
                      (~r.results[k].healthy /\ ~r.results[k].has_error)

\* C21 witness: the upstream call of a fund-list operation failed on a source
\* with two failures behind it; the operation recorded the third and
\* returned the empty list.
C21_Witness ==
    \E e \in Entries :
        /\ e.out = "error"
        /\ e.call = "fetch_fund_list"
        /\ e.before.consecutive_failures = 2
        /\ e.after.consecutive_failures = FAILURE_THRESHOLD
        /\ e.value = ListVal(<<>>)

\* The health record a source operation leaves when it called the health
\* method rec on the record h.
AfterRec(h, rec) ==
    CASE rec = "record_success" -> record_success(h, now)
      [] rec = "record_failure" -> record_failure(h, now, "error")
      [] OTHER -> h

\* C22: health_check_all calls the health check of every source of the
\* sorted list, the unavailable ones too, and returns one entry per source;
\* the call itself writes no health record, and while it runs a health record
\* changes only when the health check of its own source returns, and then to
\* what that check's record_success or record_failure makes of it.
C22_HealthCheckAllChecksEverySource ==
    [][\A p \in Procs :
        /\ HealthCheckAll(p) =>
            /\ health' = health
            /\ proc'[p].ws = Sources
        /\ (proc'[p].op = "health_check_all") =>
            /\ \A k \in 1..Len(proc'[p].trace) : proc'[p].trace[k].v = Sources[k]
            /\ proc'[p].pc = "done" =>
                /\ Len(proc'[p].trace) = Len(Sources)
                /\ Len(proc'[p].results) = Len(Sources)
                /\ \A k \in 1..Len(Sources) : proc'[p].results[k].name = Sources[k]
        /\ (proc[p].op = "health_check_all" /\ proc[p].pc = "upstream"
                /\ proc'[p] # proc[p]) =>
            LET i == proc[p].i
                v == proc[p].ws[i]
                e == proc'[p].trace[i]
            IN  /\ e.v = v
                /\ e.call = "health_check"
                /\ \A u \in Vendors \ {v} : health'[u] = health[u]
                /\ health'[v] = AfterRec(health[v], e.rec)
                /\ e.rec # None => e.out \in {"data", "error"}]_vars

\* C22 witness: health_check_all has checked both sources; the second was
\* unavailable after three failures when the call began, and its health
\* check succeeded and made it available.
C22_Witness ==
    \E r \in Frames :
        /\ r.op = "health_check_all"
        /\ r.pc = "done"
        /\ r.cf0["AkShare"] >= FAILURE_THRESHOLD
        /\ Len(r.results) = 2
        /\ r.trace[2].v = "AkShare"
        /\ ~r.trace[2].before.available
        /\ r.trace[2].rec = "record_success"
        /\ health["AkShare"].available

\* C23: every response of get_stock_eod that carries a price, served from the
\* first cache level, from the second or fresh from the manager, names as its
\* source the source whose upstream call produced the price it carries; and
\* so does every payload the cache holds.
C23_ProvenanceSurvivesCaching ==
    /\ cache_ret.op = "get_stock_eod" =>
          (cache_ret.value.status = 200 =>
              cache_ret.value.source = cache_ret.value.data.src)
    /\ \A k \in DOMAIN memory_cache :
          memory_cache[k].value.source = memory_cache[k].value.data.src

\* A request for the prefixed symbol is served from the second cache level
\* with a price that AkShare produced, after Tushare, enabled, had none, for
\* an earlier request for the bare code.
C23_Witness ==
    /\ cache_ret.op = "get_stock_eod"
    /\ cache_ret.key = "sz000001"
    /\ cache_ret.value.status = 200
    /\ cache_ret.value.cached
    /\ cache_ret.value.cache_level = "L2"
    /\ cache_ret.value.source = "AkShare"
    /\ cache_ret.value.data.src = "AkShare"
    /\ pro["Tushare"]
    /\ "stock:000001" \in DOMAIN memory_cache

\* The health method the operation of source v called in this step, when the
\* step is the return of request p's upstream call to v: the step's new
\* trace entry says which.
Recorded(p, v) ==
    /\ proc[p].pc = "upstream"
    /\ proc[p].ws[proc[p].i] = v
    /\ LET e == proc'[p].trace[Len(proc[p].trace) + 1] IN
         /\ e.v = v
         /\ e.rec # None
         /\ health'[v] = AfterRec(health[v], e.rec)

\* C24 as stated: a source's health record changes only in the return of one
\* of its own calls, by the record_success or record_failure that the call
\* made.
C24_Original ==
    [][\A v \in Vendors :
        health'[v] # health[v] => \E p \in Procs : Recorded(p, v)]_vars

\* C24, amended: a source's health record changes only in the return of one of
\* its own calls, by the record_success or record_failure that the call made,
\* or in the start of a price fetch that found no source available, which
\* sets available and clears consecutive_failures of every source and writes
\* no other field.  fetch_dimensions and health_check_all write nothing.
C24_HealthWrittenByOwnerOrReset ==
    [][\A v \in Vendors :
        health'[v] # health[v] =>
            \/ \E p \in Procs : Recorded(p, v)
            \/ \E p \in Procs :
                 /\ Free(p)
                 /\ proc'[p].op \in PriceOps
                 /\ ops' = ops + 1
                 /\ \A u \in Vendors : ~health[u].available
                 /\ health'[v] = [health[v] EXCEPT !.available = TRUE,
                                                   !.consecutive_failures = 0]]_vars

\* C24 witness: a price fetch has reset both sources, AkShare from three
\* failures with its last error kept, and AkShare's own call has then
\* recorded a success.
C24_Witness ==
    \E r \in Frames :
        /\ r.op \in PriceOps
        /\ r.did_reset
        /\ r.cf0["AkShare"] >= FAILURE_THRESHOLD
        /\ \E k \in DOMAIN r.trace :
             /\ r.trace[k].v = "AkShare"
             /\ r.trace[k].before.available
             /\ r.trace[k].before.consecutive_failures = 0
             /\ r.trace[k].before.last_error # None
             /\ r.trace[k].rec = "record_success"

\* C25: in a price fetch the k-th operation called is that of the k-th source
\* of the working set, whose sources are distinct: no source is called twice,
\* whatever its call returned or raised, and the call in progress is of a
\* source not called before.
C25_EachSourceAtMostOnce ==
    \A r \in PriceFrames :
        /\ Len(r.trace) <= Len(r.ws)
        /\ \A k \in DOMAIN r.trace : r.trace[k].v = r.ws[k]
        /\ \A j, k \in DOMAIN r.ws : j # k => r.ws[j] # r.ws[k]
        /\ \A j, k \in DOMAIN r.trace : j # k => r.trace[j].v # r.trace[k].v
        /\ r.pc = "upstream" =>
              /\ r.i = Len(r.trace) + 1
              /\ \A k \in DOMAIN r.trace : r.trace[k].v # r.ws[r.i]

\* C25 witness: a price fetch whose first source failed and whose second
\* returned nothing has ended after one call of each.
C25_Witness ==
    \E r \in PriceFrames :
        /\ r.pc = "done"
        /\ Len(r.ws) = 2
        /\ Len(r.trace) = 2
        /\ r.trace[1].out = "error"
        /\ r.trace[2].out = "empty"
        /\ r.trace[1].v # r.trace[2].v

\* C26: under every interleaving of the threads' get_memory, set_memory,
\* clear_memory and get_stats, (1) every entry of the dict is, value and
\* expiry together, what one set_memory stored; (2) a get_memory that returns
\* a value returns the value of that entry, which has not expired; (3) a
\* get_memory that evicts removes the very entry it found expired, never one
\* stored since; (4) no set_memory writes while a get_memory stands between
\* its expiry check and its eviction.
C26_CacheOperationsAtomic ==
    [][/\ \A k \in DOMAIN memory_cache' :
            /\ k \in DOMAIN written'
            /\ memory_cache'[k] = [value |-> written'[k].value,
                                   expire_at |-> written'[k].expire_at]
       /\ \A p \in Procs, k \in Keys :
            (GetMemoryEnter(p, k) /\ cache_ret'.op = "get_memory"
                                  /\ cache_ret'.value # None)
            => /\ k \in DOMAIN written
               /\ cache_ret'.value = written[k].value
               /\ now < written[k].expire_at
               /\ memory_cache' = memory_cache
       /\ \A p \in Procs :
            GetMemoryEvict(p)
            => LET k == proc[p].local.key IN
               /\ k \in DOMAIN memory_cache
               /\ memory_cache[k] = proc[p].local.found
               /\ now >= memory_cache[k].expire_at
               /\ cache_lock = p
       /\ \A p, q \in Procs :
            (proc[p].pc = "get_del" /\ proc[q].pc = "set_lock")
            => proc'[q].pc = "set_lock"]_vars

\* C26 witness: a get_memory has evicted the expired entry of a key while a
\* set_memory of the same key by another thread, its ttl computed, waited
\* for the lock.
C26_Witness ==
    \E p, q \in Procs :
        /\ p # q
        /\ proc[p].op = "get_memory"
        /\ proc[p].pc = "done"
        /\ cache_ret = CacheRet("get_memory", proc[p].local.key, None, 0)
        /\ "found" \in DOMAIN proc[p].local
        /\ proc[q].op = "set_memory"
        /\ proc[q].pc = "set_lock"
        /\ proc[q].local.key = proc[p].local.key
        /\ proc[p].local.key \notin DOMAIN memory_cache

\* Request p's step ends inside an upstream call that the step has issued.
Issued(p) == proc'[p].pc = "upstream" /\ proc'[p] # proc[p]

\* The step has recorded one admission, at the current time, in the window of
\* api_name, and none in any other window.
AdmittedFor(api_name) ==
    /\ api_name \in DOMAIN request_times'
    /\ request_times'[api_name] = Append(_get_queue(request_times, api_name)[api_name], now)
    /\ \A a \in DOMAIN request_times' \ {api_name} :
            a \in DOMAIN request_times /\ request_times'[a] = request_times[a]

\* C27 as stated, read in its weakest form: whenever a source's upstream call
\* is issued, the step that issues it has first recorded an admission in some
\* window of the limiter.
C27_Original ==
    [][\A p \in Procs :
        Issued(p) => \E a \in ApiNames \cup {"trade_cal"} : AdmittedFor(a)]_vars

\* C27, amended: the step that issues the upstream call of one of Tushare's
\* four fetch operations has recorded one admission in the window of the
\* operation's api name, and the call's health update, if it makes one, comes
\* in the later step in which the call returns.  The upstream call of
\* Tushare's health check, and every upstream call of AkShare, is issued with
\* no admission recorded.  No admission is recorded without such a call.
C27_AdmissionThenCallThenHealth ==
    [][/\ \A p \in Procs :
            Issued(p) =>
                LET r == proc'[p]
                    v == r.ws[r.i]
                    call == CurrentCall(r)
                IN  /\ \A k \in DOMAIN r.trace :
                            ~(r.trace[k].v = v /\ r.trace[k].call = call)
                    /\ IF v = "Tushare" /\ call # "health_check"
                       THEN AdmittedFor(ApiOf(call))
                       ELSE request_times' = request_times
       /\ \A p \in Procs :
            (proc[p].pc = "upstream" /\ proc'[p] # proc[p]) =>
                LET e == proc'[p].trace[Len(proc[p].trace) + 1] IN
                /\ e.v = proc[p].ws[proc[p].i]
                /\ e.before = health[e.v]
                /\ e.after = AfterRec(e.before, e.rec)
                /\ health'[e.v] = e.after
       /\ request_times' # request_times =>
            \E p \in Procs : Issued(p) /\ proc'[p].ws[proc'[p].i] = "Tushare"]_vars

\* C27 witness: Tushare's fetch_fund_list is in its upstream call after one
\* admission each for stock_basic and fund_basic, its fetch_stock_list having
\* returned and recorded a success in between.
C27_Witness ==
    \E r \in Frames :
        /\ r.op = "fetch_dimensions"
        /\ r.pc = "upstream"
        /\ r.ws[r.i] = "Tushare"
        /\ r.part = "fund"
        /\ r.trace[1].rec = "record_success"
        /\ "stock_basic" \in DOMAIN request_times
        /\ "fund_basic" \in DOMAIN request_times
        /\ request_times["stock_basic"] = <<now>>
        /\ request_times["fund_basic"] = <<now>>

\* C28 as stated: in every state each window of the limiter holds only
\* timestamps of the trailing 60 seconds.
C28_Original ==
    \A a \in DOMAIN request_times :
        \A k \in DOMAIN request_times[a] : now - request_times[a][k] <= WINDOW

\* C28, amended: whenever wait(api) has evaluated its loop (on its call with
\* the lock free, on being handed the lock, on waking from its sleep), the
\* window of that api holds only timestamps of the trailing 60 seconds, the
\* one exactly 60 seconds old included.  Between such evaluations a window
\* keeps what it held while time passes.
C28_WindowPurgedAtEachDecision ==
    [][\A p \in Procs :
        (\/ \E a \in ApiNames : CallWait(p, a) /\ locked = 0 /\ waiters = <<>>
         \/ LockAcquired(p)
         \/ WakeUp(p))
        => LET a == proc'[p].api IN
           /\ a \in DOMAIN request_times'
           /\ \A k \in DOMAIN request_times'[a] :
                /\ now - request_times'[a][k] <= WINDOW
                /\ now - request_times'[a][k] >= 0
           /\ \A b \in DOMAIN request_times' \ {a} :
                b \in DOMAIN request_times /\ request_times'[b] = request_times[b]]_vars

\* C28 witness: at 60.2 s a wait("daily") has been admitted into a window
\* that keeps the admission of 30.1 s, while the window of another api still
\* holds an admission of 0 s, now 60.2 s old.
C28_Witness ==
    /\ now = 2 * 301
    /\ "daily" \in DOMAIN request_times
    /\ "unlisted" \in DOMAIN request_times
    /\ request_times["daily"] = <<301, now>>
    /\ 0 \in Range(request_times["unlisted"])
    /\ \E r \in Frames : r.op = "wait" /\ r.pc = "done" /\ r.api = "daily"
                          /\ r.ret.kind = "return"

\* C29: every record_failure adds one to consecutive_failures and sets
\* last_failure and last_error; one that leaves the count at 1 or 2 leaves
\* available as it was, and one on an available source makes it unavailable
\* exactly when it leaves the count at 3.  In no step does an available
\* source become unavailable otherwise.
C29_UnavailableExactlyAtThreshold ==
    [][/\ \A e \in Entries' :
            e.rec = "record_failure" =>
                /\ e.after.consecutive_failures = e.before.consecutive_failures + 1
                /\ e.after.last_failure # NoTime
                /\ e.after.last_error # None
                /\ e.after.last_success = e.before.last_success
                /\ e.after.consecutive_failures < FAILURE_THRESHOLD =>
                        e.after.available = e.before.available
                /\ e.before.available =>
                        (~e.after.available <=>
                            e.after.consecutive_failures = FAILURE_THRESHOLD)
       /\ \A v \in Vendors :
            (health[v].available /\ ~health'[v].available) =>
                /\ health[v].consecutive_failures = FAILURE_THRESHOLD - 1
                /\ health'[v] = record_failure(health[v], now, "error")]_vars

\* C29 witness: a source took its second consecutive failure and stayed
\* available, then its third, which made it unavailable.
C29_Witness ==
    \E e1, e2 \in Entries :
        /\ e1.v = e2.v
        /\ e1.rec = "record_failure"
        /\ e1.before.consecutive_failures = 1
        /\ e1.after.consecutive_failures = 2
        /\ e1.after.available
        /\ e2.rec = "record_failure"
        /\ e2.before = e1.after
        /\ e2.after.consecutive_failures = FAILURE_THRESHOLD
        /\ ~e2.after.available
        /\ health[e2.v] = e2.after

\* C30 as stated: a fetch operation of a source whose upstream call completed
\* without error and had nothing (no price, an empty list) has called neither
\* record_success nor record_failure and has left the source's health record
\* as it found it.
C30_EmptyResultLeavesHealthUnchanged ==
    \A e \in Entries :
        (/\ e.out = "empty"
         /\ e.call \in PriceOps \cup {"fetch_stock_list", "fetch_fund_list"})
        => /\ e.value = EmptyOf(e.call)
           /\ e.rec = None
           /\ e.after = e.before

\* C31 as stated: a price fetch that found at least one source available when
\* it computed its working set never issues the call of a source that is
\* unavailable when the call is issued, some other source being in the
\* working set.
C31_Original ==
    [][\A p \in Procs :
        (/\ Issued(p)
         /\ proc'[p].op \in PriceOps
         /\ ~proc'[p].all_down
         /\ \E k \in DOMAIN proc'[p].ws : k # proc'[p].i)
        => health'[proc'[p].ws[proc'[p].i]].available]_vars

\* C31, amended: a price fetch computes its working set once, in the step in
\* which it is called, as the sources available then (all of them when none
\* is), and keeps it to its end; every source it calls is the next of that
\* working set.  The first is called in that same step and is available when
\* called; a later one is called whether or not it still is.
C31_WorkingSetIsSnapshot ==
    [][\A p \in Procs :
        /\ (Free(p) /\ proc'[p] # proc[p] /\ proc'[p].op \in PriceOps) =>
              LET snapshot == SelectSeq(Sources, LAMBDA v : health[v].available) IN
              /\ proc'[p].ws = IF snapshot = <<>> THEN Sources ELSE snapshot
              /\ proc'[p].i = 1
              /\ Issued(p)
              /\ health'[proc'[p].ws[1]].available
        /\ (proc[p].op \in PriceOps /\ proc[p].pc = "upstream") =>
              /\ proc'[p].ws = proc[p].ws
              /\ proc'[p].op = proc[p].op
              /\ Issued(p) => proc'[p].i = proc[p].i + 1]_vars

\* C31 witness: a price fetch that took both sources, then available, as its
\* working set is inside the call of the second, AkShare, which the third
\* failure recorded by the other request's fetch has made unavailable.
C31_Witness ==
    \E p, q \in Procs :
        /\ p # q
        /\ proc[p].op \in PriceOps
        /\ proc[p].pc = "upstream"
        /\ ~proc[p].all_down
        /\ proc[p].ws = Sources
        /\ proc[p].ws[proc[p].i] = "AkShare"
        /\ ~health["AkShare"].available
        /\ proc[q].op \in PriceOps
        /\ \E k \in DOMAIN proc[q].trace :
             /\ proc[q].trace[k].v = "AkShare"
             /\ proc[q].trace[k].before.available
             /\ proc[q].trace[k].after = health["AkShare"]
             /\ proc[q].trace[k].after.consecutive_failures = FAILURE_THRESHOLD

\* C32: fetch_dimensions always returns, and returns ([], "Unknown") when no
\* source it tried gave, without raising, two lists not both empty.  Its call
\* changes no health record: it takes the available sources, or, when none
\* is available, all sources in priority order, as they are.  While it runs,
\* a health record changes only by the record_success or record_failure of
\* the source's own returning list operation.
C32_FetchDimensionsNeverRaises ==
    [][\A p \in Procs :
        /\ FetchDimensions(p) =>
              /\ health' = health
              /\ proc'[p].ws = IF \A v \in Vendors : ~health[v].available
                               THEN Sources
                               ELSE SelectSeq(Sources, LAMBDA v : health[v].available)
              /\ proc'[p].i = 1
        /\ (proc[p].op = "fetch_dimensions" /\ proc[p].pc = "upstream") =>
              \A v \in Vendors : health'[v] # health[v] => Recorded(p, v)
        /\ (proc'[p].op = "fetch_dimensions" /\ proc'[p].pc = "done") =>
              LET r == proc'[p] IN
              /\ r.ret.kind = "return"
              /\ r.ret.value.kind = "list"
              /\ (\A k \in DOMAIN r.trace :
                    (r.trace[k].call = "fetch_fund_list" /\ r.trace[k].out # "raise")
                    => r.trace[k - 1].value.items \o r.trace[k].value.items = <<>>)
                 => r.ret = Return(ListVal(<<>>), "Unknown")]_vars

\* C32 witness: a fetch_dimensions called with no source available has tried
\* both sources in priority order and returned ([], "Unknown") after AkShare
\* raised, and AkShare is as unavailable, with as many failures, as before.
C32_Witness ==
    \E r \in Frames :
        /\ r.op = "fetch_dimensions"
        /\ r.pc = "done"
        /\ r.all_down
        /\ r.ws = Sources
        /\ r.trace[1].v = Sources[1]
        /\ r.trace[Len(r.trace)].v = "AkShare"
        /\ r.trace[Len(r.trace)].out = "raise"
        /\ r.ret = Return(ListVal(<<>>), "Unknown")
        /\ r.cf0["AkShare"] >= FAILURE_THRESHOLD
        /\ ~health["AkShare"].available
        /\ health["AkShare"].consecutive_failures = r.cf0["AkShare"]

\* The get_memory of key k, in this step, returns the stock entry that the
\* last set_memory of k stored.
ReturnsStock(k) ==
    /\ GetMemory(k)
    /\ cache_ret'.value # None
    /\ k \in DOMAIN written
    /\ written[k].cache_type = "stock"

Failed(r) ==
    r.op = "wait" /\ r.pc = "done" /\ r.ret = Raise(Exc("IndexError", None))

\* The step is one of p's call of wait(): the call itself, or its resumption
\* with the lock or after its sleep.
StepOfWait(p) ==
    \/ \E a \in ApiNames : IssueWait(p, a)
    \/ LockAcquired(p)
    \/ WakeUp(p)

\* The step has put exactly one timestamp, the current time, at the end of
\* the window of api_name, after dropping some of its oldest entries, and
\* has left every other window as it was.
OneTimestampFor(api_name) ==
    /\ api_name \in DOMAIN request_times'
    /\ LET old == _get_queue(request_times, api_name)[api_name] IN
       \E k \in 0..Len(old) :
           request_times'[api_name] = Append(SubSeq(old, k + 1, Len(old)), now)
    /\ \A a \in DOMAIN request_times' \ {api_name} :
            a \in DOMAIN request_times /\ request_times'[a] = request_times[a]
    /\ admissions' = [admissions EXCEPT ![api_name] = Append(@, now)]

CapacityOf(a) == (ConfiguredLimit(a) * 8) \div 10

\* C35: in every reachable state each window of the limiter holds at most
\* capacity(api name) timestamps, in non-decreasing order from oldest to
\* newest; and the step in which a call of wait(api name) returns normally
\* appends exactly one timestamp, the current time, to the window of that
\* api name and leaves every other window as it was.
C35_WindowsBoundedOrderedAndOwn ==
    /\ [](\A a \in DOMAIN request_times :
            /\ Len(request_times[a]) <= CapacityOf(a)
            /\ \A i, j \in 1..Len(request_times[a]) :
                   i < j => request_times[a][i] <= request_times[a][j])
    /\ [][\A p \in Procs :
            ((\/ \E a \in ApiNames : CallWait(p, a)
              \/ LockAcquired(p)
              \/ WakeUp(p))
             /\ Admitted(proc'[p]))
            => /\ OneTimestampFor(proc'[p].api)
               /\ \A a \in DOMAIN request_times :
                      a # proc'[p].api => request_times'[a] = request_times[a]]_vars

\* C35 witness: a call that slept for a slot of a window of capacity 2 has
\* been admitted; the window is full again, its two timestamps differ, and
\* the window of another api name holds a timestamp of its own.
C35_Witness ==
    \E p \in Procs, a \in DOMAIN request_times :
        /\ Admitted(proc[p])
        /\ proc[p].api = a
        /\ proc[p].wake > 0
        /\ Len(request_times[a]) = CapacityOf(a)
        /\ Len(request_times[a]) = 2
        /\ request_times[a][1] < request_times[a][2]
        /\ \E b \in DOMAIN request_times \ {a} : request_times[b] # <<>>

\* C36: a TushareDataSource constructed without a token (available = False,
\* _pro = None) never becomes available and never has an admission recorded
\* for it by the rate limiter, whatever fetches, directory fetches and health
\* checks the manager performs.
C36_DisabledVendorStaysDisabled ==
    ~pro["Tushare"] =>
        /\ ~health["Tushare"].available
        /\ \A a \in ApiNames : admissions[a] = <<>>
        /\ \A a \in DOMAIN request_times : request_times[a] = <<>>

====
